---- MODULE Spec2Model ----
(***************************************************************************)
(* Cache-aside item / item-property services of go-api-boilerplate.        *)
(*                                                                         *)
(* The two services (internal/service/items) sit between the handlers and  *)
(* two ports: the relational store (GORM repositories) and the cache       *)
(* (domain.CacheRepository).  Every request runs on its own goroutine, so  *)
(* a service method is modelled as a small process: one step per port      *)
(* call, in the order the method makes them.                               *)
(***************************************************************************)
EXTENDS Integers, Sequences, FiniteSets, TLC

\* ------------------------------------------------------------------------
\* Bounds of the model
\* ------------------------------------------------------------------------
MaxOps == 3        \* service calls issued in one behaviour
MaxFaults == 1     \* injected port failures (cache or store) in one behaviour
MaxKeyLen == 4     \* length of the arbitrary key strings tried on the disk backend
MaxDiskOps == 4    \* calls made on the disk backend in one behaviour
MaxDiskFaults == 1 \* file-system failures injected in one behaviour
MaxTime == 4       \* the clock runs from 1 to MaxTime

ItemOrder == <<"1", "2">>          \* primary-key order of the items table
PropOrder == <<"7">>               \* primary-key order of item_properties
ItemIds == {ItemOrder[k] : k \in 1..Len(ItemOrder)}
PropIds == {PropOrder[k] : k \in 1..Len(PropOrder)}
Vers == {1, 2}                     \* attribute contents: an old and a new one
Procs == {"r1", "r2"}       \* request goroutines that may overlap
SeqProcs == {"r1"}          \* the one goroutine of the one-request-at-a-time runs

\* ------------------------------------------------------------------------
\* Program constants
\* ------------------------------------------------------------------------
itemCacheKeyPrefix == "item:"
itemsListCacheKey == "items:list"
defaultCacheTTL == 5                  \* minutes
itemPropertyCacheKeyPrefix == "item_property:"
itemPropertiesListCacheKeyPrefix == "item_properties:list:"
defaultPropertyCacheTTL == 5          \* minutes

\* fmt.Sprintf("%s%s", itemCacheKeyPrefix, id)
ItemKey(id) == itemCacheKeyPrefix \o id
\* mutant: the property id is left out of the single-property key
PropKey_ItemOnly(itemID, id) == itemPropertyCacheKeyPrefix \o itemID

\* fmt.Sprintf("%s%s:%s", itemPropertyCacheKeyPrefix, itemID, id)
PropKey(itemID, id) == itemPropertyCacheKeyPrefix \o itemID \o ":" \o id
\* fmt.Sprintf(itemPropertiesListCacheKeyFmt, itemID)
PropListKey(itemID) == itemPropertiesListCacheKeyPrefix \o itemID

Keys == {itemsListCacheKey} \cup {ItemKey(i) : i \in ItemIds}
          \cup {PropKey(i, q) : i \in ItemIds, q \in PropIds}
          \cup {PropListKey(i) : i \in ItemIds}

\* ------------------------------------------------------------------------
\* Domain values (internal/domain)
\* ------------------------------------------------------------------------
\* domain.Item: Title stands for all attributes; ItemProperties is filled
\* only by a Preload.
Item(id, ver, ps) == [ID |-> id, Title |-> ver, ItemProperties |-> ps]
\* domain.ItemProperty: Value stands for name and value.
ItemProperty(id, itemID, ver) == [ID |-> id, ItemID |-> itemID, Value |-> ver]

NoRow == [item |-> "", ver |-> 0]      \* absent row of item_properties

MapSeq(s, F(_)) == [k \in 1..Len(s) |-> F(s[k])]

\* ------------------------------------------------------------------------
\* encoding/json as the services use it.  A cache payload is a string; the
\* model keeps its JSON kind and its members.
\* ------------------------------------------------------------------------
EmptyString == [kind |-> "empty", body |-> <<>>]      \* ""
Garbage == [kind |-> "garbage", body |-> <<>>]        \* not JSON at all

\* json.Marshal(*T) gives an object, json.Marshal([]*T) an array.
MarshalOne(e) == [kind |-> "object", body |-> <<e>>]
MarshalList(es) == [kind |-> "array", body |-> es]
Marshal(shape, val) ==
    IF shape = "one" THEN MarshalOne(val[1]) ELSE MarshalList(val)

\* json.Unmarshal into a struct fails on an array, into a slice on an
\* object, and both fail on text that is not JSON.
UnmarshalOK(shape, doc) ==
    \/ shape = "one" /\ doc.kind = "object"
    \/ shape = "list" /\ doc.kind = "array"
Unmarshal(shape, doc) == doc.body

\* ------------------------------------------------------------------------
\* State
\* ------------------------------------------------------------------------
VARIABLES
    items,     \* items table: id -> 0 (no row) or the row's content
    props,     \* item_properties table: id -> [item, ver] or NoRow
    cache,     \* the cache backend: key -> [present, val, ttl]
    pc,        \* per request: where the service method stands
    op,        \* per request: the service call [name, id, pid, ver, inc]
    loc,       \* per request: the value the store returned to the method
    res,       \* per request: what the method returns [err, val]
    calls,     \* per request: the port calls the method has made so far
    nops,      \* service calls issued so far
    nfaults,   \* port failures injected so far
    lastUpdate,\* history: the last update that returned success
    created    \* history: the reads of an item since its create returned

\* key construction looked at on its own
VARIABLES
    kreq,      \* two (purpose, item-id, property-id) combinations
    kres       \* the key strings built for them, <<>> before they are built

keyVars == <<kreq, kres>>

\* the disk backend's file naming looked at on its own
VARIABLES
    fkey,      \* the key a cache call was given
    fname      \* the file name computed for it, "" before it is computed

nameVars == <<fkey, fname>>

\* the disk backend (fileCacheRepository) and its callers
VARIABLES
    files,     \* the cache directory: file name -> stored bytes
    now,       \* time.Now()
    mu,        \* r.mu: [w: the goroutine holding Lock, r: those holding RLock]
    dpc,       \* per caller: where its cache call stands
    dop,       \* per caller: the call [name, key, value, ttl]
    dres,      \* per caller: what the call returns [val, ok, err]
    cleanups,  \* file name -> removal goroutines started and not yet run
    cleaning,  \* the file name the removal goroutine holding Lock is about to remove
    dnops,     \* calls made so far
    dnfaults,  \* file-system failures injected so far
    lastWrite  \* history: per key, the last Set or Delete that went through

diskVars == <<files, now, mu, dpc, dop, dres, cleanups, cleaning, dnops,
              dnfaults, lastWrite>>

\* the Redis backend given the calls the disk backend is given
VARIABLES
    rds,       \* the Redis keyspace: key -> [present, val, expires, exp]
    rres       \* per caller: what the call returns from Redis [val, ok, err]

redisVars == <<rds, rres>>

\* the choice of the cache backend at startup and what follows from it
VARIABLES
    redisUp,   \* the Redis server answers
    dirState,  \* cfg.CacheDir: present, missing, or blocked (cannot be made)
    boot,      \* NewCacheRepository: new, ready (port returned), failed
    port,      \* the CacheRepository returned: redis or file
    probe,     \* how the startup ping of Redis ended: ok, refused, timeout
    bootDir,   \* the state os.MkdirAll found the directory in, "" if not run
    contacted, \* a command was sent to Redis after startup
    ping,      \* the last Ping on the port: [done, err, dir, up]
    routed     \* the backends the services' cache calls have gone to

wireVars == <<redisUp, dirState, boot, port, probe, bootDir, contacted, ping,
              routed>>

\* history of overlapping requests
VARIABLES
    race       \* what the population Sets did: "late" (wrote a value the
               \* store no longer held), "during" (while a writer of the
               \* entity stood between its store write and its last Delete)

\* the HTTP layer: one request at a time through router and handler
VARIABLES
    hreq,      \* the request being served, NoRequest when none
    hres       \* what the server did with it, NoResponse until served

httpVars == <<hreq, hres>>
restVars == <<race, httpVars>>
moreVars == <<redisVars, wireVars, restVars>>
svcVars == <<items, props, cache, pc, op, loc, res, calls, nops, nfaults,
             lastUpdate, created>>
extVars == <<keyVars, nameVars, diskVars, moreVars>>

vars == <<items, props, cache, pc, op, loc, res, calls, nops, nfaults,
          lastUpdate, created, extVars>>

NoEntry == [present |-> FALSE, val |-> EmptyString, ttl |-> 0]
NoOp == [name |-> "", id |-> "", pid |-> "", ver |-> 0, inc |-> FALSE]
NoRes == [err |-> "", val |-> <<>>]
NoUpdate == [key |-> "", ver |-> 0, invalidated |-> FALSE]
NoCreate == [id |-> "", fresh |-> FALSE, faulty |-> FALSE, storeReads |-> <<>>]

\* ------------------------------------------------------------------------
\* Store port: the GORM repositories (mysql package).  `fault` is a failure
\* of the database itself (connection lost, timeout).
\* ------------------------------------------------------------------------
\* rows of item_properties with item_id = itemID
PropsOf(itemID) ==
    MapSeq(SelectSeq(PropOrder, LAMBDA q : props[q].item = itemID),
           LAMBDA q : ItemProperty(q, itemID, props[q].ver))

\* Preload("ItemProperties") only when ctx carries include_properties
LoadItem(id, inc) == Item(id, items[id], IF inc THEN PropsOf(id) ELSE <<>>)

\* itemRepository.GetAll
ItemRepoGetAll(inc, fault) ==
    IF fault THEN [err |-> "ErrDB", val |-> <<>>]
    ELSE [err |-> "",
          val |-> MapSeq(SelectSeq(ItemOrder, LAMBDA i : items[i] # 0),
                         LAMBDA i : LoadItem(i, inc))]

\* itemRepository.GetByID: First() reports ErrRecordNotFound
ItemRepoGetByID(id, inc, fault) ==
    IF fault THEN [err |-> "ErrDB", val |-> <<>>]
    ELSE IF items[id] = 0 THEN [err |-> "ErrRecordNotFound", val |-> <<>>]
    ELSE [err |-> "", val |-> <<LoadItem(id, inc)>>]

\* itemRepository.Create: INSERT, the primary key must be new
ItemRepoCreate(id, ver, fault) ==
    IF fault THEN [err |-> "ErrDB", items |-> items, props |-> props]
    ELSE IF items[id] # 0
    THEN [err |-> "ErrDuplicatedKey", items |-> items, props |-> props]
    ELSE [err |-> "", items |-> [items EXCEPT ![id] = ver], props |-> props]

\* itemRepository.Update: Save() updates the row and inserts it when no row
\* was updated
ItemRepoUpdate(id, ver, fault) ==
    IF fault THEN [err |-> "ErrDB", items |-> items, props |-> props]
    ELSE [err |-> "", items |-> [items EXCEPT ![id] = ver], props |-> props]

\* itemRepository.Delete: DELETE ... WHERE id = ?, no error when no row
\* matches; fk_item_properties_item is ON DELETE CASCADE
ItemRepoDelete(id, fault) ==
    IF fault THEN [err |-> "ErrDB", items |-> items, props |-> props]
    ELSE [err |-> "",
          items |-> [items EXCEPT ![id] = 0],
          props |-> [q \in PropIds |->
                        IF props[q].item = id THEN NoRow ELSE props[q]]]

\* itemPropertyRepository.GetAllByItemID
PropRepoGetAllByItemID(itemID, fault) ==
    IF fault THEN [err |-> "ErrDB", val |-> <<>>]
    ELSE [err |-> "", val |-> PropsOf(itemID)]

\* itemPropertyRepository.GetByID: WHERE item_id = ? AND id = ?
PropRepoGetByID(itemID, id, fault) ==
    IF fault THEN [err |-> "ErrDB", val |-> <<>>]
    ELSE IF props[id].item # itemID
    THEN [err |-> "ErrRecordNotFound", val |-> <<>>]
    ELSE [err |-> "", val |-> <<ItemProperty(id, itemID, props[id].ver)>>]

\* itemPropertyRepository.Create: INSERT under the foreign key to items
PropRepoCreate(itemID, id, ver, fault) ==
    IF fault THEN [err |-> "ErrDB", items |-> items, props |-> props]
    ELSE IF props[id] # NoRow
    THEN [err |-> "ErrDuplicatedKey", items |-> items, props |-> props]
    ELSE IF items[itemID] = 0
    THEN [err |-> "ErrForeignKeyViolated", items |-> items, props |-> props]
    ELSE [err |-> "", items |-> items,
          props |-> [props EXCEPT ![id] = [item |-> itemID, ver |-> ver]]]

\* itemPropertyRepository.Update: Save() writes every column of the row
\* whose primary key is id (item_id included) and inserts it when no row
\* was updated
PropRepoUpdate(itemID, id, ver, fault) ==
    IF fault THEN [err |-> "ErrDB", items |-> items, props |-> props]
    ELSE IF items[itemID] = 0
    THEN [err |-> "ErrForeignKeyViolated", items |-> items, props |-> props]
    ELSE [err |-> "", items |-> items,
          props |-> [props EXCEPT ![id] = [item |-> itemID, ver |-> ver]]]

\* itemPropertyRepository.Delete: WHERE item_id = ? AND id = ?, no error
\* when no row matches
PropRepoDelete(itemID, id, fault) ==
    IF fault THEN [err |-> "ErrDB", items |-> items, props |-> props]
    ELSE [err |-> "", items |-> items,
          props |-> IF props[id].item = itemID
                    THEN [props EXCEPT ![id] = NoRow] ELSE props]

\* ------------------------------------------------------------------------
\* Cache port (domain.CacheRepository) as the services see it
\* ------------------------------------------------------------------------
\* Get: the entry, the backend's not-found error, or (how # "ok") what a
\* failing or damaged backend hands back: an error, "" or undecodable text.
CacheGet(key, how) ==
    CASE how = "ok" ->
            IF cache[key].present
            THEN [err |-> "", val |-> cache[key].val]
            ELSE [err |-> "ErrCacheKeyNotFound", val |-> EmptyString]
      [] how = "error" -> [err |-> "ErrCache", val |-> EmptyString]
      [] how = "empty" -> [err |-> "", val |-> EmptyString]
      [] how = "garbage" -> [err |-> "", val |-> Garbage]

\* Set: stores value and ttl under key, or fails and stores nothing
CacheSet(key, val, ttl, fault) ==
    IF fault THEN [err |-> "ErrCache", cache |-> cache]
    ELSE [err |-> "",
          cache |-> [cache EXCEPT ![key] =
                        [present |-> TRUE, val |-> val, ttl |-> ttl]]]

\* Delete: removes key (absent keys are no error), or fails and removes
\* nothing
CacheDelete(key, fault) ==
    IF fault THEN [err |-> "ErrCache", cache |-> cache]
    ELSE [err |-> "", cache |-> [cache EXCEPT ![key] = NoEntry]]

\* ------------------------------------------------------------------------
\* The services (internal/service/items)
\* ------------------------------------------------------------------------
ItemReadOps == {"GetAllItems", "GetItemByID"}
PropReadOps == {"GetItemPropertiesByItemID", "GetItemPropertyByID"}
ItemWriteOps == {"CreateItem", "UpdateItem", "DeleteItem"}
PropWriteOps == {"CreateItemProperty", "UpdateItemProperty",
                 "DeleteItemProperty"}
ReadOps == ItemReadOps \cup PropReadOps
WriteOps == ItemWriteOps \cup PropWriteOps

\* what the read decodes into: one entity or a list
Shape(o) ==
    IF o.name \in {"GetAllItems", "GetItemPropertiesByItemID"}
    THEN "list" ELSE "one"

\* cacheKey of the four reads
ReadKey(o) ==
    CASE o.name = "GetAllItems" -> itemsListCacheKey
      [] o.name = "GetItemByID" -> ItemKey(o.id)
      [] o.name = "GetItemPropertiesByItemID" -> PropListKey(o.id)
      [] o.name = "GetItemPropertyByID" -> PropKey(o.id, o.pid)

\* mutant: every read populates the list key of the items
SetKey_AlwaysList(o) == itemsListCacheKey

\* the key the read populates: the one it tried to read
SetKey(o) == ReadKey(o)

\* mutant: the entry is stored without expiry
SetTTL_NoExpiry(o) == 0

\* ttl the read passes to Set
SetTTL(o) ==
    IF o.name \in ItemReadOps THEN defaultCacheTTL
    ELSE defaultPropertyCacheTTL

\* mutant: the error test is inverted, a good Get is never used
CacheHit_ErrInverted(o, got) ==
    /\ got.err # ""
    /\ got.val # EmptyString
    /\ UnmarshalOK(Shape(o), got.val)

\* `if err == nil && cached != ""` and the Unmarshal inside it
CacheHit(o, got) ==
    /\ got.err = ""
    /\ got.val # EmptyString
    /\ UnmarshalOK(Shape(o), got.val)

\* the repository call of each read
StoreRead(o, fault) ==
    CASE o.name = "GetAllItems" -> ItemRepoGetAll(o.inc, fault)
      [] o.name = "GetItemByID" -> ItemRepoGetByID(o.id, o.inc, fault)
      [] o.name = "GetItemPropertiesByItemID" ->
            PropRepoGetAllByItemID(o.id, fault)
      [] o.name = "GetItemPropertyByID" ->
            PropRepoGetByID(o.id, o.pid, fault)

\* the repository call of each write
StoreWrite(o, fault) ==
    CASE o.name = "CreateItem" -> ItemRepoCreate(o.id, o.ver, fault)
      [] o.name = "UpdateItem" -> ItemRepoUpdate(o.id, o.ver, fault)
      [] o.name = "DeleteItem" -> ItemRepoDelete(o.id, fault)
      [] o.name = "CreateItemProperty" ->
            PropRepoCreate(o.id, o.pid, o.ver, fault)
      [] o.name = "UpdateItemProperty" ->
            PropRepoUpdate(o.id, o.pid, o.ver, fault)
      [] o.name = "DeleteItemProperty" ->
            PropRepoDelete(o.id, o.pid, fault)

\* mutant: a create invalidates like an update, single-entity key included
Invalidation_CreateLikeUpdate(o) ==
    IF o.name \in ItemWriteOps
    THEN <<ItemKey(o.id), itemsListCacheKey>>
    ELSE <<PropKey(o.id, o.pid), PropListKey(o.id)>>

\* mutant: a property write drops the property list of every item
Invalidation_EveryPropertyList(o) ==
    CASE o.name = "CreateItem" -> <<itemsListCacheKey>>
      [] o.name \in {"UpdateItem", "DeleteItem"} ->
            <<ItemKey(o.id), itemsListCacheKey>>
      [] o.name = "CreateItemProperty" -> MapSeq(ItemOrder, PropListKey)
      [] o.name \in {"UpdateItemProperty", "DeleteItemProperty"} ->
            <<PropKey(o.id, o.pid)>> \o MapSeq(ItemOrder, PropListKey)

\* mutant: an update invalidates the list key only
Invalidation_UpdateListOnly(o) ==
    CASE o.name \in {"CreateItem", "UpdateItem"} -> <<itemsListCacheKey>>
      [] o.name = "DeleteItem" -> <<ItemKey(o.id), itemsListCacheKey>>
      [] o.name \in {"CreateItemProperty", "UpdateItemProperty"} ->
            <<PropListKey(o.id)>>
      [] o.name = "DeleteItemProperty" ->
            <<PropKey(o.id, o.pid), PropListKey(o.id)>>

\* mutant: deleting an item also drops the property list cached under it
Invalidation_DeleteItemDropsPropertyList(o) ==
    CASE o.name = "CreateItem" -> <<itemsListCacheKey>>
      [] o.name = "UpdateItem" -> <<ItemKey(o.id), itemsListCacheKey>>
      [] o.name = "DeleteItem" -> <<PropListKey(o.id), itemsListCacheKey>>
      [] o.name = "CreateItemProperty" -> <<PropListKey(o.id)>>
      [] o.name \in {"UpdateItemProperty", "DeleteItemProperty"} ->
            <<PropKey(o.id, o.pid), PropListKey(o.id)>>

\* the keys each write deletes after the store write, in the order of the
\* method's Delete calls
Invalidation(o) ==
    CASE o.name = "CreateItem" -> <<itemsListCacheKey>>
      [] o.name \in {"UpdateItem", "DeleteItem"} ->
            <<ItemKey(o.id), itemsListCacheKey>>
      [] o.name = "CreateItemProperty" -> <<PropListKey(o.id)>>
      [] o.name \in {"UpdateItemProperty", "DeleteItemProperty"} ->
            <<PropKey(o.id, o.pid), PropListKey(o.id)>>

\* mutant: the store's error is only logged, the invalidation goes ahead
AfterStoreWrite_ErrIgnored(o, err) == "cacheDelete"

\* `if err != nil { return err }` after the store write: where a write goes
\* next
AfterStoreWrite(o, err) ==
    IF err # "" THEN "done" ELSE "cacheDelete"

\* mutant: a failed Delete ends the method
AfterCacheDelete_StopOnErr(o, n, err) ==
    IF err # "" \/ n >= Len(Invalidation(o)) THEN "done" ELSE "cacheDelete"

\* `if err := s.cacheRepo.Delete(...); err != nil { log.Printf(...) }`: a
\* failed Delete is logged and the method goes on; n Deletes are made so far
AfterCacheDelete(o, n, err) ==
    IF n < Len(Invalidation(o)) THEN "cacheDelete" ELSE "done"

\* `if err != nil { return nil, err }` after the store read
AfterStoreRead(o, err) ==
    IF err # "" THEN "done" ELSE "cacheSet"

\* mutant: the store's error is replaced by one of the service's own
ReadError_Wrapped(err) == [err |-> "ErrInternal", val |-> <<>>]

\* what a read returns once the store has failed: nil and the store's error
ReadError(err) == [err |-> err, val |-> <<>>]

\* what a write returns after its invalidations: nil, whatever they did
WriteResult(errs) == [err |-> "", val |-> <<>>]

\* mutant: a failed Set fails the read
ReadResult_SetErrReturned(val, setErr) ==
    IF setErr # "" THEN [err |-> setErr, val |-> <<>>]
    ELSE [err |-> "", val |-> val]

\* what a read returns after populating: the store's value, whatever Set did
ReadResult(val, setErr) == [err |-> "", val |-> val]

\* the port-call record the requests keep (what a mock would assert on)
Call(fn, arg, val, ttl, err) ==
    [fn |-> fn, arg |-> arg, val |-> val, ttl |-> ttl, err |-> err]

CallsOf(p, fns) == SelectSeq(calls[p], LAMBDA c : c.fn \in fns)
StoreFns == {"repo.read", "repo.write"}

\* ------------------------------------------------------------------------
\* Requests
\* ------------------------------------------------------------------------
IncludeOpts == BOOLEAN     \* ?include=item_properties, set by the handler

Requests ==
    {[name |-> "GetAllItems", id |-> "", pid |-> "", ver |-> 0, inc |-> b] :
        b \in IncludeOpts}
    \cup {[name |-> "GetItemByID", id |-> i, pid |-> "", ver |-> 0, inc |-> b] :
            i \in ItemIds, b \in IncludeOpts}
    \cup {[name |-> n, id |-> i, pid |-> "", ver |-> v, inc |-> FALSE] :
            n \in {"CreateItem", "UpdateItem"}, i \in ItemIds, v \in Vers}
    \cup {[name |-> "DeleteItem", id |-> i, pid |-> "", ver |-> 0,
           inc |-> FALSE] : i \in ItemIds}
    \cup {[name |-> "GetItemPropertiesByItemID", id |-> i, pid |-> "",
           ver |-> 0, inc |-> FALSE] : i \in ItemIds}
    \cup {[name |-> n, id |-> i, pid |-> q, ver |-> 0, inc |-> FALSE] :
            n \in {"GetItemPropertyByID", "DeleteItemProperty"},
            i \in ItemIds, q \in PropIds}
    \cup {[name |-> n, id |-> i, pid |-> q, ver |-> v, inc |-> FALSE] :
            n \in {"CreateItemProperty", "UpdateItemProperty"},
            i \in ItemIds, q \in PropIds, v \in Vers}

\* no key pair under study, no file name under study
NoKeyRun == kreq = <<>> /\ kres = <<>> /\ fkey = "" /\ fname = ""

\* no disk backend in use
NoDiskRun ==
    /\ files = <<>> /\ now = 0 /\ mu = <<>> /\ dpc = <<>> /\ dop = <<>>
    /\ dres = <<>> /\ cleanups = <<>> /\ cleaning = "" /\ dnops = 0
    /\ dnfaults = 0 /\ lastWrite = <<>>

\* no Redis backend beside the disk backend
NoRedisRun == rds = <<>> /\ rres = <<>>

NoPing == [done |-> FALSE, err |-> FALSE, dir |-> "", up |-> FALSE]

\* no backend selection under study: the services' cache is the abstract one
NoWireRun ==
    /\ redisUp = FALSE /\ dirState = "" /\ boot = "" /\ port = ""
    /\ probe = "" /\ bootDir = "" /\ contacted = FALSE /\ ping = NoPing
    /\ routed = {}

\* no overlapping requests under study
NoRequest == [method |-> ""]
NoResponse == [status |-> 0]

\* no HTTP request under study
NoHttpRun == hreq = NoRequest /\ hres = NoResponse

NoRestRun == race = {} /\ NoHttpRun

NoMoreRun == NoRedisRun /\ NoWireRun /\ NoRestRun

\* no service call in progress, nothing stored
NoServiceRun ==
    /\ items = [i \in ItemIds |-> 0]
    /\ props = [q \in PropIds |-> NoRow]
    /\ cache = [k \in Keys |-> NoEntry]
    /\ pc = [p \in Procs |-> "idle"]
    /\ op = [p \in Procs |-> NoOp]
    /\ loc = [p \in Procs |-> <<>>]
    /\ res = [p \in Procs |-> NoRes]
    /\ calls = [p \in Procs |-> <<>>]
    /\ nops = 0
    /\ nfaults = 0
    /\ lastUpdate = NoUpdate
    /\ created = NoCreate

\* The database the process starts on: any rows that respect the foreign
\* key; the cache starts empty.
Init ==
    /\ items \in [ItemIds -> {0, 1}]
    /\ props \in [PropIds -> {NoRow} \cup [item : ItemIds, ver : {1}]]
    /\ \A q \in PropIds : props[q] # NoRow => items[props[q].item] # 0
    /\ cache = [k \in Keys |-> NoEntry]
    /\ pc = [p \in Procs |-> "idle"]
    /\ op = [p \in Procs |-> NoOp]
    /\ loc = [p \in Procs |-> <<>>]
    /\ res = [p \in Procs |-> NoRes]
    /\ calls = [p \in Procs |-> <<>>]
    /\ nops = 0
    /\ nfaults = 0
    /\ lastUpdate = NoUpdate
    /\ created = NoCreate
    /\ NoKeyRun
    /\ NoDiskRun
    /\ NoMoreRun

\* mutant: a call meant for Redis goes to the disk backend while Redis is down
Target_FailsOver == IF port = "redis" /\ ~redisUp THEN "file" ELSE port

\* s.cacheRepo: the CacheRepository the constructor was given
Target == port

\* the cache call goes to a Redis server that does not answer
PortDown == Target = "redis" /\ ~redisUp

\* a port failure may be injected while the budget lasts
Faults == IF nfaults < MaxFaults THEN {FALSE, TRUE} ELSE {FALSE}
GetHows ==
    IF nfaults < MaxFaults THEN {"ok", "error", "empty", "garbage"}
    ELSE {"ok"}
Charge(faulty) == nfaults' = IF faulty THEN nfaults + 1 ELSE nfaults

\* a handler calls a service method
Start(p, reqs) ==
    /\ pc[p] = "idle"
    /\ nops < MaxOps
    /\ \E o \in reqs :
        /\ op' = [op EXCEPT ![p] = o]
        /\ pc' = [pc EXCEPT ![p] =
                    IF o.name \in ReadOps THEN "cacheGet" ELSE "storeWrite"]
    /\ nops' = nops + 1
    /\ UNCHANGED <<items, props, cache, loc, res, calls, nfaults, lastUpdate,
                   created>>

\* read: s.cacheRepo.Get(ctx, cacheKey) and the hit test
DoCacheGet(p) ==
    /\ pc[p] = "cacheGet"
    /\ \E how \in (IF PortDown THEN {"error"} ELSE GetHows) :
        LET got == CacheGet(ReadKey(op[p]), how) IN
        /\ calls' = [calls EXCEPT ![p] =
                Append(@, Call("cache.Get", ReadKey(op[p]), got.val, 0,
                               got.err))]
        /\ IF CacheHit(op[p], got)
           THEN /\ res' = [res EXCEPT ![p] =
                        [err |-> "", val |-> Unmarshal(Shape(op[p]), got.val)]]
                /\ pc' = [pc EXCEPT ![p] = "done"]
           ELSE /\ res' = res
                /\ pc' = [pc EXCEPT ![p] = "storeRead"]
        /\ Charge(how # "ok" /\ ~PortDown)
    /\ UNCHANGED <<items, props, cache, op, loc, nops, lastUpdate, created>>

\* read: the repository query after a miss
DoStoreRead(p) ==
    /\ pc[p] = "storeRead"
    /\ \E fault \in Faults :
        LET r == StoreRead(op[p], fault) IN
        /\ calls' = [calls EXCEPT ![p] =
                Append(@, Call("repo.read", op[p].id, EmptyString, 0, r.err))]
        /\ pc' = [pc EXCEPT ![p] = AfterStoreRead(op[p], r.err)]
        /\ IF AfterStoreRead(op[p], r.err) = "done"
           THEN /\ res' = [res EXCEPT ![p] = ReadError(r.err)]
                /\ loc' = loc
           ELSE /\ res' = res
                /\ loc' = [loc EXCEPT ![p] = r.val]
        /\ Charge(fault)
    /\ UNCHANGED <<items, props, cache, op, nops, lastUpdate, created>>

\* read: json.Marshal and s.cacheRepo.Set(ctx, cacheKey, data, ttl)
DoCacheSet(p) ==
    /\ pc[p] = "cacheSet"
    /\ \E fault \in (IF PortDown THEN {TRUE} ELSE Faults) :
        LET doc == Marshal(Shape(op[p]), loc[p])
            r == CacheSet(SetKey(op[p]), doc, SetTTL(op[p]), fault) IN
        /\ calls' = [calls EXCEPT ![p] =
                Append(@, Call("cache.Set", SetKey(op[p]), doc,
                               SetTTL(op[p]), r.err))]
        /\ cache' = r.cache
        /\ res' = [res EXCEPT ![p] = ReadResult(loc[p], r.err)]
        /\ pc' = [pc EXCEPT ![p] = "done"]
        /\ Charge(fault /\ ~PortDown)
    /\ UNCHANGED <<items, props, op, loc, nops, lastUpdate, created>>

\* write: the repository call
DoStoreWrite(p) ==
    /\ pc[p] = "storeWrite"
    /\ \E fault \in Faults :
        LET r == StoreWrite(op[p], fault) IN
        /\ calls' = [calls EXCEPT ![p] =
                Append(@, Call("repo.write", op[p].id, EmptyString, 0, r.err))]
        /\ items' = r.items
        /\ props' = r.props
        /\ pc' = [pc EXCEPT ![p] = AfterStoreWrite(op[p], r.err)]
        /\ res' = IF AfterStoreWrite(op[p], r.err) = "done"
                  THEN [res EXCEPT ![p] = [err |-> r.err, val |-> <<>>]]
                  ELSE res
        /\ Charge(fault)
    /\ UNCHANGED <<cache, op, loc, nops, lastUpdate, created>>

\* write: the next s.cacheRepo.Delete(ctx, key) of the method
DoCacheDelete(p) ==
    /\ pc[p] = "cacheDelete"
    /\ \E fault \in (IF PortDown THEN {TRUE} ELSE Faults) :
        LET done == Len(CallsOf(p, {"cache.Delete"}))
            key == Invalidation(op[p])[done + 1]
            r == CacheDelete(key, fault)
            log == Append(calls[p],
                          Call("cache.Delete", key, EmptyString, 0, r.err)) IN
        /\ calls' = [calls EXCEPT ![p] = log]
        /\ cache' = r.cache
        /\ pc' = [pc EXCEPT ![p] = AfterCacheDelete(op[p], done + 1, r.err)]
        /\ res' = IF AfterCacheDelete(op[p], done + 1, r.err) = "done"
                  THEN [res EXCEPT ![p] = WriteResult(log)]
                  ELSE res
        /\ Charge(fault /\ ~PortDown)
    /\ UNCHANGED <<items, props, op, loc, nops, lastUpdate, created>>

\* a port call that did not do its job: an error other than the cache's
\* not-found, or a Get that handed back "" or undecodable text
Failed(c) ==
    \/ c.err \notin {"", "ErrCacheKeyNotFound"}
    \/ c.fn = "cache.Get" /\ c.err = "" /\ c.val \in {EmptyString, Garbage}

\* history kept when a method returns: the last successful update (dropped
\* by any later successful store write) ...
NoteUpdate(p) ==
    IF op[p].name \in WriteOps /\ res[p].err = ""
    THEN IF op[p].name \in {"UpdateItem", "UpdateItemProperty"}
         THEN [key |-> IF op[p].name = "UpdateItem" THEN ItemKey(op[p].id)
                       ELSE PropKey(op[p].id, op[p].pid),
               ver |-> op[p].ver,
               invalidated |->
                   ~\E n \in 1..Len(calls[p]) :
                        /\ calls[p][n].fn = "cache.Delete"
                        /\ calls[p][n].arg =
                              (IF op[p].name = "UpdateItem"
                               THEN ItemKey(op[p].id)
                               ELSE PropKey(op[p].id, op[p].pid))
                        /\ calls[p][n].err # ""]
         ELSE NoUpdate
    ELSE lastUpdate

\* ... and the GetItemByID calls that followed the last successful
\* CreateItem of an id, with the store queries each made (dropped by a
\* later write to that id)
NoteCreate(p) ==
    CASE op[p].name = "CreateItem" /\ res[p].err = "" ->
            [id |-> op[p].id, fresh |-> ~cache[ItemKey(op[p].id)].present,
             faulty |-> FALSE, storeReads |-> <<>>]
      [] op[p].name \in ItemWriteOps /\ op[p].id = created.id
            /\ ~(op[p].name = "CreateItem" /\ res[p].err = "") -> NoCreate
      [] op[p].name = "GetItemByID" /\ op[p].id = created.id
            /\ Len(created.storeReads) < 2 ->
            [created EXCEPT
                !.faulty = @ \/ \E n \in 1..Len(calls[p]) : Failed(calls[p][n]),
                !.storeReads = Append(@, Len(CallsOf(p, {"repo.read"})))]
      [] OTHER -> created

\* the method returns to its handler (track: keep the history variables)
Return(p, track) ==
    /\ pc[p] = "done"
    /\ pc' = [pc EXCEPT ![p] = "idle"]
    /\ op' = [op EXCEPT ![p] = NoOp]
    /\ loc' = [loc EXCEPT ![p] = <<>>]
    /\ res' = [res EXCEPT ![p] = NoRes]
    /\ calls' = [calls EXCEPT ![p] = <<>>]
    /\ lastUpdate' = IF track THEN NoteUpdate(p) ELSE lastUpdate
    /\ created' = IF track THEN NoteCreate(p) ELSE created
    /\ UNCHANGED <<items, props, cache, nops, nfaults>>

\* time passes beyond an entry's ttl: the backend no longer has it
Expire(k) ==
    /\ cache[k].present
    /\ cache[k].ttl > 0
    /\ cache' = [cache EXCEPT ![k] = NoEntry]
    /\ created' = IF created.id # "" /\ k = ItemKey(created.id)
                  THEN NoCreate ELSE created
    /\ UNCHANGED <<items, props, pc, op, loc, res, calls, nops, nfaults,
                   lastUpdate>>

Next ==
    \/ \E p \in SeqProcs : Start(p, Requests) /\ UNCHANGED extVars
    \/ \E p \in SeqProcs : DoCacheGet(p) /\ UNCHANGED extVars
    \/ \E p \in SeqProcs : DoStoreRead(p) /\ UNCHANGED extVars
    \/ \E p \in SeqProcs : DoCacheSet(p) /\ UNCHANGED extVars
    \/ \E p \in SeqProcs : DoStoreWrite(p) /\ UNCHANGED extVars
    \/ \E p \in SeqProcs : DoCacheDelete(p) /\ UNCHANGED extVars
    \/ \E p \in SeqProcs : Return(p, FALSE) /\ UNCHANGED extVars
    \/ \E k \in Keys : Expire(k) /\ UNCHANGED extVars

Spec == Init /\ [][Next]_vars

\* the same runs with the history of returned calls kept
NextHist ==
    \/ \E p \in SeqProcs : Start(p, Requests) /\ UNCHANGED extVars
    \/ \E p \in SeqProcs : DoCacheGet(p) /\ UNCHANGED extVars
    \/ \E p \in SeqProcs : DoStoreRead(p) /\ UNCHANGED extVars
    \/ \E p \in SeqProcs : DoCacheSet(p) /\ UNCHANGED extVars
    \/ \E p \in SeqProcs : DoStoreWrite(p) /\ UNCHANGED extVars
    \/ \E p \in SeqProcs : DoCacheDelete(p) /\ UNCHANGED extVars
    \/ \E p \in SeqProcs : Return(p, TRUE) /\ UNCHANGED extVars
    \/ \E k \in Keys : Expire(k) /\ UNCHANGED extVars

SpecHist == Init /\ [][NextHist]_vars

\* one request at a time, none with the include option, and every cache
\* call does its job (the store may still fail)
PlainRequests == {o \in Requests : ~o.inc}

NextPlain ==
    \/ \E p \in SeqProcs : Start(p, PlainRequests) /\ UNCHANGED extVars
    \/ \E p \in SeqProcs : DoCacheGet(p) /\ nfaults' = nfaults /\ UNCHANGED extVars
    \/ \E p \in SeqProcs : DoStoreRead(p) /\ UNCHANGED extVars
    \/ \E p \in SeqProcs : DoCacheSet(p) /\ nfaults' = nfaults /\ UNCHANGED extVars
    \/ \E p \in SeqProcs : DoStoreWrite(p) /\ UNCHANGED extVars
    \/ \E p \in SeqProcs : DoCacheDelete(p) /\ nfaults' = nfaults /\ UNCHANGED extVars
    \/ \E p \in SeqProcs : Return(p, FALSE) /\ UNCHANGED extVars
    \/ \E k \in Keys : Expire(k) /\ UNCHANGED extVars

SpecPlain == Init /\ [][NextPlain]_vars

\* a population Set is noted: did it write a value the store no longer
\* holds, and did it do so while a writer of the same item stood between
\* its store write and its last cache Delete
NoteSet(p) ==
    LET late == loc[p] # StoreRead(op[p], FALSE).val
        during == \E q \in Procs \ {p} :
                      /\ op[q].name \in ItemWriteOps /\ op[q].id = op[p].id
                      /\ pc[q] = "cacheDelete" IN
    race' = race \cup (IF late THEN {"late"} ELSE {})
                 \cup (IF late /\ during THEN {"during"} ELSE {})

\* a reader and a writer of one item whose calls overlap
RaceRequests ==
    {o \in Requests : o.name \in {"GetItemByID", "UpdateItem"}
                        /\ o.id = "1" /\ ~o.inc}

raceOff == <<keyVars, nameVars, diskVars, redisVars, wireVars, httpVars>>

\* requests handled on goroutines of their own, each port call a step
NextRace ==
    \/ \E p \in Procs : Start(p, RaceRequests) /\ UNCHANGED <<race, raceOff>>
    \/ \E p \in Procs : DoCacheGet(p) /\ UNCHANGED <<race, raceOff>>
    \/ \E p \in Procs : DoStoreRead(p) /\ UNCHANGED <<race, raceOff>>
    \/ \E p \in Procs : DoCacheSet(p) /\ NoteSet(p) /\ UNCHANGED raceOff
    \/ \E p \in Procs : DoStoreWrite(p) /\ UNCHANGED <<race, raceOff>>
    \/ \E p \in Procs : DoCacheDelete(p) /\ UNCHANGED <<race, raceOff>>
    \/ \E p \in Procs : Return(p, FALSE) /\ UNCHANGED <<race, raceOff>>

SpecRace == Init /\ [][NextRace]_vars

\* requests about item 1 and its property
LiveRequests == {o \in Requests : o.id \in {"", "1"} /\ ~o.inc /\ o.ver # 1}

\* requests served one at a time while time passes
NextLive ==
    \/ \E p \in SeqProcs : Start(p, LiveRequests) /\ UNCHANGED extVars
    \/ \E p \in SeqProcs : DoCacheGet(p) /\ UNCHANGED extVars
    \/ \E p \in SeqProcs : DoStoreRead(p) /\ UNCHANGED extVars
    \/ \E p \in SeqProcs : DoCacheSet(p) /\ UNCHANGED extVars
    \/ \E p \in SeqProcs : DoStoreWrite(p) /\ UNCHANGED extVars
    \/ \E p \in SeqProcs : DoCacheDelete(p) /\ UNCHANGED extVars
    \/ \E p \in SeqProcs : Return(p, FALSE) /\ UNCHANGED extVars
    \/ \E k \in Keys : Expire(k) /\ UNCHANGED extVars

\* time does not stop: an entry with a ttl does not outlive it for ever
SpecLive ==
    /\ Init
    /\ [][NextLive]_vars
    /\ \A k \in Keys : WF_vars(Expire(k) /\ UNCHANGED extVars)

\* ------------------------------------------------------------------------
\* Key construction on its own: the services take ids as plain strings and
\* put them into the key formats unchecked.
\* ------------------------------------------------------------------------
\* id strings a caller of the service layer may pass
OpaqueIds == {"a", "b", "a:b", "b:a"}
Purposes == {"item", "items:list", "item_property", "item_properties:list"}

\* the (purpose, item-id, property-id) combinations that name an entry
Combos ==
    {[purpose |-> "items:list", itemID |-> "", propID |-> ""]}
    \cup {[purpose |-> u, itemID |-> i, propID |-> ""] :
            u \in {"item", "item_properties:list"}, i \in OpaqueIds}
    \cup {[purpose |-> "item_property", itemID |-> i, propID |-> q] :
            i \in OpaqueIds, q \in OpaqueIds}

\* the key the services build for a combination
CacheKey(c) ==
    CASE c.purpose = "item" -> ItemKey(c.itemID)
      [] c.purpose = "items:list" -> itemsListCacheKey
      [] c.purpose = "item_property" -> PropKey(c.itemID, c.propID)
      [] c.purpose = "item_properties:list" -> PropListKey(c.itemID)

CharAt(s, k) == SubSeq(s, k, k)
HasColon(s) == \E k \in 1..Len(s) : CharAt(s, k) = ":"

InitKeys ==
    /\ NoServiceRun
    /\ NoDiskRun
    /\ NoMoreRun
    /\ kreq \in Combos \X Combos
    /\ kres = <<>>
    /\ fkey = "" /\ fname = ""

\* both keys are formatted
BuildKeys ==
    /\ kres = <<>>
    /\ kres' = <<CacheKey(kreq[1]), CacheKey(kreq[2])>>
    /\ UNCHANGED <<svcVars, kreq, nameVars, diskVars, moreVars>>

NextKeys == BuildKeys

SpecKeys == InitKeys /\ [][NextKeys]_vars

\* ------------------------------------------------------------------------
\* Disk backend (internal/repository/file): key -> file name.
\* path/filepath on a Unix build, as keyToFilename uses it.
\* ------------------------------------------------------------------------
cacheDir == ".cache"                  \* CACHE_DIR default
Separator == "/"

\* index of the last separator of s at or before position k, 0 if none
RECURSIVE LastSeparator(_, _)
LastSeparator(s, k) ==
    IF k = 0 THEN 0
    ELSE IF CharAt(s, k) = Separator THEN k
    ELSE LastSeparator(s, k - 1)

\* s without its trailing separators
RECURSIVE StripTrailing(_)
StripTrailing(s) ==
    IF Len(s) > 0 /\ CharAt(s, Len(s)) = Separator
    THEN StripTrailing(SubSeq(s, 1, Len(s) - 1))
    ELSE s

\* filepath.Base: the last element of the path; "." for the empty path,
\* "/" for a path of separators only
filepathBase(path) ==
    IF path = "" THEN "."
    ELSE LET p == StripTrailing(path)
             q == SubSeq(p, LastSeparator(p, Len(p)) + 1, Len(p)) IN
         IF q = "" THEN Separator ELSE q

\* the elements of a path between its separators
RECURSIVE SplitPath(_, _, _)
SplitPath(s, k, cur) ==
    IF k > Len(s) THEN <<cur>>
    ELSE IF CharAt(s, k) = Separator
         THEN <<cur>> \o SplitPath(s, k + 1, "")
         ELSE SplitPath(s, k + 1, cur \o CharAt(s, k))

\* filepath.Clean on the elements: "" and "." dropped, ".." takes the
\* element before it away (nothing above the root, kept in front of a
\* relative path)
RECURSIVE CleanElems(_, _, _)
CleanElems(es, out, rooted) ==
    IF es = <<>> THEN out
    ELSE LET e == Head(es) IN
         CASE e \in {"", "."} -> CleanElems(Tail(es), out, rooted)
           [] e = ".." ->
                IF out # <<>> /\ out[Len(out)] # ".."
                THEN CleanElems(Tail(es), SubSeq(out, 1, Len(out) - 1), rooted)
                ELSE IF rooted THEN CleanElems(Tail(es), out, rooted)
                ELSE CleanElems(Tail(es), Append(out, ".."), rooted)
           [] OTHER -> CleanElems(Tail(es), Append(out, e), rooted)

RECURSIVE JoinElems(_)
JoinElems(es) ==
    IF es = <<>> THEN ""
    ELSE IF Len(es) = 1 THEN es[1]
    ELSE es[1] \o Separator \o JoinElems(Tail(es))

\* filepath.Clean
filepathClean(path) ==
    IF path = "" THEN "."
    ELSE LET rooted == CharAt(path, 1) = Separator
             body == JoinElems(CleanElems(SplitPath(path, 1, ""), <<>>, rooted))
             r == IF rooted THEN Separator \o body ELSE body IN
         IF r = "" THEN "." ELSE r

\* filepath.Join of two elements: empty elements are ignored, the result
\* is cleaned
filepathJoin(a, b) ==
    CASE a = "" /\ b = "" -> ""
      [] a = "" -> filepathClean(b)
      [] b = "" -> filepathClean(a)
      [] OTHER -> filepathClean(a \o Separator \o b)

\* filepath.Dir: all but the last element of the path
filepathDir(path) ==
    filepathClean(SubSeq(path, 1, LastSeparator(path, Len(path))))

\* mutant: ":" is taken for a separator too, the file is named after what
\* follows the last one
RECURSIVE LastColon(_, _)
LastColon(s, k) ==
    IF k = 0 THEN 0
    ELSE IF CharAt(s, k) = ":" THEN k
    ELSE LastColon(s, k - 1)
keyToFilename_ColonSeparated(key) ==
    LET base == filepathBase(key)
        last == SubSeq(base, LastColon(base, Len(base)) + 1, Len(base))
        safeKey == IF last \in {"", ".", "/"} THEN "default" ELSE last IN
    filepathJoin(cacheDir, safeKey \o ".cache")

\* mutant: the key goes into the file name as it is
keyToFilename_NoBase(key) == filepathJoin(cacheDir, key \o ".cache")

\* fileCacheRepository.keyToFilename
keyToFilename(key) ==
    LET safeKey == IF filepathBase(key) \in {".", "/"} THEN "default"
                   ELSE filepathBase(key) IN
    filepathJoin(cacheDir, safeKey \o ".cache")

\* the strings of at most n characters over the characters that matter to
\* filepath
PathChars == {"a", ".", "/"}
RECURSIVE StringsUpTo(_)
StringsUpTo(n) ==
    IF n = 0 THEN {""}
    ELSE LET S == StringsUpTo(n - 1) IN
         S \cup {t \o c : t \in S, c \in PathChars}

\* keys a caller of the cache port may pass: the services' keys and
\* arbitrary strings
AnyKeys == Keys \cup StringsUpTo(MaxKeyLen)

InitNames ==
    /\ NoServiceRun
    /\ NoDiskRun
    /\ NoMoreRun
    /\ kreq = <<>> /\ kres = <<>>
    /\ fkey \in AnyKeys
    /\ fname = ""

\* filename := r.keyToFilename(key)
NameFile ==
    /\ fname = ""
    /\ fname' = keyToFilename(fkey)
    /\ UNCHANGED <<svcVars, keyVars, fkey, diskVars, moreVars>>

NextNames == NameFile

SpecNames == InitNames /\ [][NextNames]_vars

\* ------------------------------------------------------------------------
\* Disk backend: the stored record and the four cache calls on the
\* directory.  `fault` is a failure of the file system under the call.
\* ------------------------------------------------------------------------
DiskKeys == {ItemKey("1"), PropListKey("1")}
\* the keys the services build: those of the rows in use and those of
\* other ids without a path separator
NamespaceKeys == Keys \cup {CacheKey(c) : c \in Combos}
\* filename := r.keyToFilename(key), for each key of the services
NamespaceFiles == [k \in NamespaceKeys |-> keyToFilename(k)]

\* filename := r.keyToFilename(key), for each key in use
FileOf == [k \in DiskKeys |-> keyToFilename(k)]
DiskFiles == {FileOf[k] : k \in DiskKeys}
DiskVals == {"v1", "v2"}
TTLs == {0, 1, 2}                    \* time.Duration passed to Set; 0: no expiry
Callers == {"g1", "g2"}              \* goroutines that call the backend
SeqCallers == {"g1"}

ZeroTime == 0                        \* time.Time{}, before every clock reading

\* type cacheItem struct
cacheItem(value, expiresAt, hasExpiry) ==
    [Value |-> value, ExpiresAt |-> expiresAt, HasExpiry |-> hasExpiry]

\* bytes of a file: none (no such file), the JSON of a cacheItem, or bytes
\* that are not a JSON document (a write cut short)
NoFile == [kind |-> "none", item |-> cacheItem("", ZeroTime, FALSE)]
Truncated == [kind |-> "truncated", item |-> cacheItem("", ZeroTime, FALSE)]
MarshalItem(item) == [kind |-> "json", item |-> item]
UnmarshalItemOK(data) == data.kind = "json"
UnmarshalItem(data) == data.item

\* item.HasExpiry && time.Now().After(item.ExpiresAt)
Expired(item, t) == item.HasExpiry /\ t > item.ExpiresAt

\* fileCacheRepository.Get between RLock and RUnlock; `spawn` tells whether
\* the removal goroutine is started
FileGet(fs, t, key, fault) ==
    LET data == fs[FileOf[key]] IN
    IF fault = "io" THEN [val |-> "", ok |-> FALSE, err |-> "EIO", spawn |-> FALSE]
    ELSE IF data.kind = "none"
    THEN [val |-> "", ok |-> FALSE, err |-> "ErrCacheKeyNotFound",
          spawn |-> FALSE]
    ELSE IF ~UnmarshalItemOK(data)
    THEN [val |-> "", ok |-> FALSE, err |-> "SyntaxError", spawn |-> FALSE]
    ELSE IF Expired(UnmarshalItem(data), t)
    THEN [val |-> "", ok |-> FALSE, err |-> "ErrCacheExpired", spawn |-> TRUE]
    ELSE [val |-> UnmarshalItem(data).Value, ok |-> FALSE, err |-> "",
          spawn |-> FALSE]

\* mutant: Exists only looks for a decodable file
FileExists_IgnoresExpiry(fs, t, key, fault) ==
    IF fault = "io" THEN [val |-> "", ok |-> FALSE, err |-> "EIO", spawn |-> FALSE]
    ELSE [val |-> "", ok |-> UnmarshalItemOK(fs[FileOf[key]]), err |-> "",
          spawn |-> FALSE]

\* fileCacheRepository.Exists between RLock and RUnlock
FileExists(fs, t, key, fault) ==
    LET data == fs[FileOf[key]] IN
    IF fault = "io" THEN [val |-> "", ok |-> FALSE, err |-> "EIO", spawn |-> FALSE]
    ELSE IF data.kind = "none" \/ ~UnmarshalItemOK(data)
    THEN [val |-> "", ok |-> FALSE, err |-> "", spawn |-> FALSE]
    ELSE [val |-> "", ok |-> ~Expired(UnmarshalItem(data), t), err |-> "",
          spawn |-> FALSE]

\* fileCacheRepository.Set between Lock and Unlock: os.WriteFile may fail
\* before it touches the file ("io") or after it has truncated it ("short")
FileSet(fs, t, key, value, ttl, fault) ==
    LET item == cacheItem(value, IF ttl > 0 THEN t + ttl ELSE ZeroTime, ttl > 0)
        filename == FileOf[key] IN
    CASE fault = "io" -> [files |-> fs, err |-> "EIO"]
      [] fault = "short" ->
            [files |-> [fs EXCEPT ![filename] = Truncated], err |-> "EIO"]
      [] OTHER ->
            [files |-> [fs EXCEPT ![filename] = MarshalItem(item)], err |-> ""]

\* mutant: os.Remove's error for a missing file is returned
FileDelete_ErrOnMissing(fs, key, fault) ==
    IF fault = "io" THEN [files |-> fs, err |-> "EIO"]
    ELSE IF fs[FileOf[key]].kind = "none"
    THEN [files |-> fs, err |-> "ENOENT"]
    ELSE [files |-> [fs EXCEPT ![FileOf[key]] = NoFile], err |-> ""]

\* fileCacheRepository.Delete between Lock and Unlock: a missing file is
\* not an error
FileDelete(fs, key, fault) ==
    IF fault = "io" THEN [files |-> fs, err |-> "EIO"]
    ELSE [files |-> [fs EXCEPT ![FileOf[key]] = NoFile], err |-> ""]

\* ------------------------------------------------------------------------
\* Disk backend: callers, the lock and the removal goroutines
\* ------------------------------------------------------------------------
NoCall == [name |-> "", key |-> "", value |-> "", ttl |-> 0]
NoOut == [val |-> "", ok |-> FALSE, err |-> "", spawn |-> FALSE]
\* kind: none, set or delete; exp: the instant now + ttl of a Set with a
\* ttl; over: the Set replaced a stored entry
NoWrite == [kind |-> "none", value |-> "", expires |-> FALSE, exp |-> 0,
            over |-> FALSE]
Unlocked == [w |-> "", r |-> {}]

DiskCalls ==
    {[name |-> n, key |-> k, value |-> "", ttl |-> 0] :
        n \in {"Get", "Exists", "Delete"}, k \in DiskKeys}
    \cup {[name |-> "Set", key |-> k, value |-> v, ttl |-> d] :
            k \in DiskKeys, v \in DiskVals, d \in TTLs}

\* which lock each method takes
ReadLocked == {"Get", "Exists"}
WriteLocked == {"Set", "Delete"}

\* NewCacheRepository on an empty directory
EmptyDisk ==
    /\ NoServiceRun
    /\ NoKeyRun
    /\ files = [f \in DiskFiles |-> NoFile]
    /\ now = 1
    /\ mu = Unlocked
    /\ dpc = [g \in Callers |-> "idle"]
    /\ dop = [g \in Callers |-> NoCall]
    /\ dres = [g \in Callers |-> NoOut]
    /\ cleanups = [f \in DiskFiles |-> 0]
    /\ cleaning = ""
    /\ dnops = 0
    /\ dnfaults = 0
    /\ lastWrite = [k \in DiskKeys |-> NoWrite]

InitDisk == EmptyDisk /\ NoMoreRun

DiskFaults(name) ==
    IF dnfaults >= MaxDiskFaults THEN {""}
    ELSE IF name = "Set" THEN {"", "io", "short"}
    ELSE {"", "io"}

\* a goroutine calls a method of the backend
DStart(g, cs) ==
    /\ dpc[g] = "idle"
    /\ dnops < MaxDiskOps
    /\ \E c \in cs : dop' = [dop EXCEPT ![g] = c]
    /\ dpc' = [dpc EXCEPT ![g] = "lock"]
    /\ dnops' = dnops + 1
    /\ UNCHANGED <<files, now, mu, dres, cleanups, cleaning, dnfaults,
                   lastWrite>>

\* r.mu.RLock() of Get and Exists: waits while a goroutine holds Lock
DRLock(g) ==
    /\ dpc[g] = "lock"
    /\ dop[g].name \in ReadLocked
    /\ mu.w = ""
    /\ mu' = [mu EXCEPT !.r = @ \cup {g}]
    /\ dpc' = [dpc EXCEPT ![g] = "in"]
    /\ UNCHANGED <<files, now, dop, dres, cleanups, cleaning, dnops,
                   dnfaults, lastWrite>>

\* mutant: the writers take the lock the way the readers do
DLock_LikeRLock(g) ==
    /\ dpc[g] = "lock"
    /\ dop[g].name \in WriteLocked
    /\ mu.w = ""
    /\ mu' = [mu EXCEPT !.w = g]
    /\ dpc' = [dpc EXCEPT ![g] = "in"]
    /\ UNCHANGED <<files, now, dop, dres, cleanups, cleaning, dnops,
                   dnfaults, lastWrite>>

\* r.mu.Lock() of Set and Delete: waits while any goroutine holds the lock
DLock(g) ==
    /\ dpc[g] = "lock"
    /\ dop[g].name \in WriteLocked
    /\ mu.w = "" /\ mu.r = {}
    /\ mu' = [mu EXCEPT !.w = g]
    /\ dpc' = [dpc EXCEPT ![g] = "in"]
    /\ UNCHANGED <<files, now, dop, dres, cleanups, cleaning, dnops,
                   dnfaults, lastWrite>>

\* the body of Get and Exists under the read lock; an expired entry makes
\* Get start the goroutine that will remove the file
DRead(g) ==
    /\ dpc[g] = "in"
    /\ dop[g].name \in ReadLocked
    /\ \E fault \in DiskFaults(dop[g].name) :
        LET out == IF dop[g].name = "Get"
                   THEN FileGet(files, now, dop[g].key, fault)
                   ELSE FileExists(files, now, dop[g].key, fault) IN
        /\ dres' = [dres EXCEPT ![g] = out]
        /\ cleanups' = IF out.spawn
                       THEN [cleanups EXCEPT ![FileOf[dop[g].key]] = @ + 1]
                       ELSE cleanups
        /\ dnfaults' = IF fault = "" THEN dnfaults ELSE dnfaults + 1
    /\ dpc' = [dpc EXCEPT ![g] = "out"]
    /\ UNCHANGED <<files, now, mu, dop, cleaning, dnops, lastWrite>>

\* the body of Set and Delete under the write lock
DWrite(g) ==
    /\ dpc[g] = "in"
    /\ dop[g].name \in WriteLocked
    /\ \E fault \in DiskFaults(dop[g].name) :
        LET c == dop[g]
            out == IF c.name = "Set"
                   THEN FileSet(files, now, c.key, c.value, c.ttl, fault)
                   ELSE FileDelete(files, c.key, fault) IN
        /\ files' = out.files
        /\ dres' = [dres EXCEPT ![g] = [NoOut EXCEPT !.err = out.err]]
        /\ lastWrite' =
              CASE out.err = "" /\ c.name = "Set" ->
                      [lastWrite EXCEPT ![c.key] =
                          [kind |-> "set", value |-> c.value,
                           expires |-> c.ttl > 0,
                           exp |-> IF c.ttl > 0 THEN now + c.ttl ELSE 0,
                           over |-> files[FileOf[c.key]].kind = "json"]]
                [] out.err = "" /\ c.name = "Delete" ->
                      [lastWrite EXCEPT ![c.key] =
                          [NoWrite EXCEPT !.kind = "delete"]]
                [] fault = "short" -> [lastWrite EXCEPT ![c.key] = NoWrite]
                [] OTHER -> lastWrite
        /\ dnfaults' = IF fault = "" THEN dnfaults ELSE dnfaults + 1
    /\ dpc' = [dpc EXCEPT ![g] = "out"]
    /\ UNCHANGED <<now, mu, dop, cleanups, cleaning, dnops>>

\* mutant: Get removes the expired file itself, without `go`: it asks for the
\* write lock while it holds the read lock and returns only afterwards
DUnlock_AfterOwnCleanup(g) ==
    /\ dpc[g] = "out"
    /\ ~(dop[g].name = "Get" /\ dres[g].spawn)
    /\ mu' = IF dop[g].name \in ReadLocked
             THEN [mu EXCEPT !.r = @ \ {g}]
             ELSE [mu EXCEPT !.w = ""]
    /\ dpc' = [dpc EXCEPT ![g] = "idle"]
    /\ dop' = [dop EXCEPT ![g] = NoCall]
    /\ dres' = [dres EXCEPT ![g] = NoOut]
    /\ UNCHANGED <<files, now, cleanups, cleaning, dnops, dnfaults,
                   lastWrite>>

\* the deferred RUnlock / Unlock, and the method returns
DUnlock(g) ==
    /\ dpc[g] = "out"
    /\ mu' = IF dop[g].name \in ReadLocked
             THEN [mu EXCEPT !.r = @ \ {g}]
             ELSE [mu EXCEPT !.w = ""]
    /\ dpc' = [dpc EXCEPT ![g] = "idle"]
    /\ dop' = [dop EXCEPT ![g] = NoCall]
    /\ dres' = [dres EXCEPT ![g] = NoOut]
    /\ UNCHANGED <<files, now, cleanups, cleaning, dnops, dnfaults,
                   lastWrite>>

\* the goroutine started by Get: r.mu.Lock()
CleanupLock(f) ==
    /\ cleanups[f] > 0
    /\ mu.w = "" /\ mu.r = {}
    /\ mu' = [mu EXCEPT !.w = "cleanup"]
    /\ cleaning' = f
    /\ cleanups' = [cleanups EXCEPT ![f] = @ - 1]
    /\ UNCHANGED <<files, now, dpc, dop, dres, dnops, dnfaults, lastWrite>>

\* the goroutine started by Get: os.Remove(filename), whatever the file
\* holds by now, and the deferred Unlock
CleanupRemove ==
    /\ mu.w = "cleanup"
    /\ files' = [files EXCEPT ![cleaning] = NoFile]
    /\ mu' = [mu EXCEPT !.w = ""]
    /\ cleaning' = ""
    /\ UNCHANGED <<now, dpc, dop, dres, cleanups, dnops, dnfaults,
                   lastWrite>>

\* the clock advances
Tick ==
    /\ now < MaxTime
    /\ now' = now + 1
    /\ UNCHANGED <<files, mu, dpc, dop, dres, cleanups, cleaning, dnops,
                   dnfaults, lastWrite>>

\* one caller at a time, with the removal goroutines running beside it
NextDisk ==
    \/ \E g \in SeqCallers : DStart(g, DiskCalls) /\ UNCHANGED <<svcVars, keyVars, nameVars, moreVars>>
    \/ \E g \in SeqCallers : DRLock(g) /\ UNCHANGED <<svcVars, keyVars, nameVars, moreVars>>
    \/ \E g \in SeqCallers : DLock(g) /\ UNCHANGED <<svcVars, keyVars, nameVars, moreVars>>
    \/ \E g \in SeqCallers : DRead(g) /\ UNCHANGED <<svcVars, keyVars, nameVars, moreVars>>
    \/ \E g \in SeqCallers : DWrite(g) /\ UNCHANGED <<svcVars, keyVars, nameVars, moreVars>>
    \/ \E g \in SeqCallers : DUnlock(g) /\ UNCHANGED <<svcVars, keyVars, nameVars, moreVars>>
    \/ \E f \in DiskFiles : CleanupLock(f) /\ UNCHANGED <<svcVars, keyVars, nameVars, moreVars>>
    \/ CleanupRemove /\ UNCHANGED <<svcVars, keyVars, nameVars, moreVars>>
    \/ Tick /\ UNCHANGED <<svcVars, keyVars, nameVars, moreVars>>

SpecDisk == InitDisk /\ [][NextDisk]_vars

\* calls made by goroutines that overlap: one key is enough to make them
\* meet on the lock and on one file
ConcCalls == {c \in DiskCalls : c.key = ItemKey("1") /\ c.value \in {"", "v1"}
                                  /\ c.ttl \in {0, 1}}

\* two callers whose calls overlap, with the removal goroutines
NextDiskConc ==
    \/ \E g \in Callers : DStart(g, ConcCalls) /\ UNCHANGED <<svcVars, keyVars, nameVars, moreVars>>
    \/ \E g \in Callers : DRLock(g) /\ UNCHANGED <<svcVars, keyVars, nameVars, moreVars>>
    \/ \E g \in Callers : DLock(g) /\ UNCHANGED <<svcVars, keyVars, nameVars, moreVars>>
    \/ \E g \in Callers : DRead(g) /\ UNCHANGED <<svcVars, keyVars, nameVars, moreVars>>
    \/ \E g \in Callers : DWrite(g) /\ UNCHANGED <<svcVars, keyVars, nameVars, moreVars>>
    \/ \E g \in Callers : DUnlock(g) /\ UNCHANGED <<svcVars, keyVars, nameVars, moreVars>>
    \/ \E f \in DiskFiles : CleanupLock(f) /\ UNCHANGED <<svcVars, keyVars, nameVars, moreVars>>
    \/ CleanupRemove /\ UNCHANGED <<svcVars, keyVars, nameVars, moreVars>>
    \/ Tick /\ UNCHANGED <<svcVars, keyVars, nameVars, moreVars>>

SpecDiskConc == InitDisk /\ [][NextDiskConc]_vars

\* a step of a goroutine that is inside the backend: a caller past its
\* call, or a removal goroutine
DiskRuns ==
    /\ \/ \E g \in Callers :
              DRLock(g) \/ DLock(g) \/ DRead(g) \/ DWrite(g) \/ DUnlock(g)
       \/ \E f \in DiskFiles : CleanupLock(f)
       \/ CleanupRemove
    /\ UNCHANGED <<svcVars, keyVars, nameVars, moreVars>>

\* the same runs under the Go scheduler: while some goroutine inside the
\* backend can run, one of them does
SpecDiskLive == SpecDiskConc /\ WF_vars(DiskRuns)

\* ------------------------------------------------------------------------
\* The Redis backend (cacheRepository over a go-redis client), given every
\* call the disk backend is given, at the same instant
\* ------------------------------------------------------------------------
NoRedisEntry == [present |-> FALSE, val |-> "", expires |-> FALSE, exp |-> 0]

\* the server drops a key once the clock has passed its expire time
RedisLive(db, t, key) ==
    db[key].present /\ ~(db[key].expires /\ t > db[key].exp)

\* r.client.Get(ctx, key).Result(): the value, or redis.Nil
RedisGet(db, t, key) ==
    IF RedisLive(db, t, key)
    THEN [val |-> db[key].val, ok |-> TRUE, err |-> ""]
    ELSE [val |-> "", ok |-> FALSE, err |-> "redis.Nil"]

\* result > 0 of r.client.Exists(ctx, key).Result()
RedisExists(db, t, key) ==
    [val |-> "", ok |-> RedisLive(db, t, key), err |-> ""]

\* r.client.Set(ctx, key, value, ttl): a ttl of zero sets no expire time
RedisSet(db, t, key, value, ttl) ==
    [db EXCEPT ![key] = [present |-> TRUE, val |-> value,
                         expires |-> ttl > 0,
                         exp |-> IF ttl > 0 THEN t + ttl ELSE 0]]

\* r.client.Del(ctx, key)
RedisDel(db, key) == [db EXCEPT ![key] = NoRedisEntry]

NoReply == [val |-> "", ok |-> FALSE, err |-> ""]

\* both backends start empty
InitBackends ==
    /\ EmptyDisk
    /\ NoWireRun
    /\ NoRestRun
    /\ rds = [k \in DiskKeys |-> NoRedisEntry]
    /\ rres = [g \in Callers |-> NoReply]

\* the Get or Exists the disk backend serves is served by Redis as well
RRead(g) ==
    /\ rres' = [rres EXCEPT ![g] =
                  IF dop[g].name = "Get" THEN RedisGet(rds, now, dop[g].key)
                  ELSE RedisExists(rds, now, dop[g].key)]
    /\ UNCHANGED rds

\* the Set or Delete the disk backend serves is served by Redis as well
RWrite(g) ==
    /\ rds' = IF dop[g].name = "Set"
              THEN RedisSet(rds, now, dop[g].key, dop[g].value, dop[g].ttl)
              ELSE RedisDel(rds, dop[g].key)
    /\ rres' = [rres EXCEPT ![g] = NoReply]

\* the call returns on both sides
RReturn(g) ==
    /\ rres' = [rres EXCEPT ![g] = NoReply]
    /\ UNCHANGED rds

\* calls on one key, with and without a ttl
BackendCalls == {c \in DiskCalls : c.key = ItemKey("1") /\ c.ttl \in {0, 1}}

\* one caller whose calls go to both backends
NextBackends ==
    \/ \E g \in SeqCallers : DStart(g, BackendCalls) /\ UNCHANGED <<svcVars, keyVars, nameVars, redisVars, wireVars, restVars>>
    \/ \E g \in SeqCallers : DRLock(g) /\ UNCHANGED <<svcVars, keyVars, nameVars, redisVars, wireVars, restVars>>
    \/ \E g \in SeqCallers : DLock(g) /\ UNCHANGED <<svcVars, keyVars, nameVars, redisVars, wireVars, restVars>>
    \/ \E g \in SeqCallers : DRead(g) /\ RRead(g) /\ UNCHANGED <<svcVars, keyVars, nameVars, wireVars, restVars>>
    \/ \E g \in SeqCallers : DWrite(g) /\ RWrite(g) /\ UNCHANGED <<svcVars, keyVars, nameVars, wireVars, restVars>>
    \/ \E g \in SeqCallers : DUnlock(g) /\ RReturn(g) /\ UNCHANGED <<svcVars, keyVars, nameVars, wireVars, restVars>>
    \/ \E f \in DiskFiles : CleanupLock(f) /\ UNCHANGED <<svcVars, keyVars, nameVars, redisVars, wireVars, restVars>>
    \/ CleanupRemove /\ UNCHANGED <<svcVars, keyVars, nameVars, redisVars, wireVars, restVars>>
    \/ Tick /\ UNCHANGED <<svcVars, keyVars, nameVars, redisVars, wireVars, restVars>>

SpecBackends == InitBackends /\ [][NextBackends]_vars

\* ------------------------------------------------------------------------
\* Backend selection at startup (di.NewCacheRepository) and the services
\* wired to the port it returns
\* ------------------------------------------------------------------------
DirStates == {"present", "missing", "blocked"}

\* redisClient.Ping(ctx) under the 2-second deadline: a server that is up
\* answers or is too slow, one that is down refuses or never answers
ProbeOutcomes(up) == IF up THEN {"ok", "timeout"} ELSE {"refused", "timeout"}

\* mutant: the directory is not created when it is missing
MkdirAll_FailsOnMissing(dir) ==
    IF dir = "present" THEN [dir |-> dir, err |-> FALSE]
    ELSE [dir |-> dir, err |-> TRUE]

\* os.MkdirAll(cacheDir, 0755): fails only where the directory cannot be made
MkdirAll(dir) ==
    IF dir = "blocked" THEN [dir |-> dir, err |-> TRUE]
    ELSE [dir |-> "present", err |-> FALSE]

\* mutant: the disk backend's Ping asks the Redis server
FilePing_AsksRedis(dir, up) == [err |-> ~up, asked |-> TRUE]

\* fileCacheRepository.Ping: os.Stat(r.cacheDir); asked: Redis was contacted
FilePing(dir, up) == [err |-> dir # "present", asked |-> FALSE]

\* cacheRepository.Ping: r.client.Ping(ctx).Err()
RedisPing(dir, up) == [err |-> ~up, asked |-> TRUE]

\* the process starts: Redis may be up or down, the directory in any state;
\* the database holds the rows the requests are about
InitWired ==
    /\ items = [i \in ItemIds |-> 1]
    /\ props = [q \in PropIds |-> [item |-> "1", ver |-> 1]]
    /\ cache = [k \in Keys |-> NoEntry]
    /\ pc = [p \in Procs |-> "idle"]
    /\ op = [p \in Procs |-> NoOp]
    /\ loc = [p \in Procs |-> <<>>]
    /\ res = [p \in Procs |-> NoRes]
    /\ calls = [p \in Procs |-> <<>>]
    /\ nops = 0
    /\ nfaults = 0
    /\ lastUpdate = NoUpdate
    /\ created = NoCreate
    /\ NoKeyRun
    /\ NoDiskRun
    /\ NoRedisRun
    /\ NoRestRun
    /\ redisUp \in BOOLEAN
    /\ dirState \in DirStates
    /\ boot = "new"
    /\ port = ""
    /\ probe = ""
    /\ bootDir = ""
    /\ contacted = FALSE
    /\ ping = NoPing
    /\ routed = {}

\* NewCacheRepository(cfg): ping Redis; on an error build the disk backend
Select ==
    /\ boot = "new"
    /\ \E outcome \in ProbeOutcomes(redisUp) :
        /\ probe' = outcome
        /\ IF outcome = "ok"
           THEN /\ port' = "redis"
                /\ boot' = "ready"
                /\ dirState' = dirState
                /\ bootDir' = ""
           ELSE LET made == MkdirAll(dirState) IN
                /\ dirState' = made.dir
                /\ bootDir' = dirState
                /\ port' = IF made.err THEN "" ELSE "file"
                /\ boot' = IF made.err THEN "failed" ELSE "ready"
    /\ UNCHANGED <<redisUp, contacted, ping, routed>>

\* Ping(ctx) on the port the process holds
PortPing ==
    /\ boot = "ready"
    /\ LET out == IF Target = "file" THEN FilePing(dirState, redisUp)
                  ELSE RedisPing(dirState, redisUp) IN
        /\ ping' = [done |-> TRUE, err |-> out.err, dir |-> dirState,
                    up |-> redisUp]
        /\ contacted' = (contacted \/ out.asked)
    /\ UNCHANGED <<redisUp, dirState, boot, port, probe, bootDir, routed>>

\* the Redis server goes down or comes back while the process runs
RedisFlip ==
    /\ boot = "ready"
    /\ redisUp' = ~redisUp
    /\ UNCHANGED <<dirState, boot, port, probe, bootDir, contacted, ping,
                   routed>>

\* the cache directory is removed or put back while the process runs
DirChange ==
    /\ boot = "ready"
    /\ dirState' = IF dirState = "present" THEN "missing" ELSE "present"
    /\ UNCHANGED <<redisUp, boot, port, probe, bootDir, contacted, ping,
                   routed>>

\* a cache call of a service goes where s.cacheRepo points
Via ==
    /\ routed' = routed \cup {Target}
    /\ contacted' = (contacted \/ Target = "redis")
    /\ UNCHANGED <<redisUp, dirState, boot, port, probe, bootDir, ping>>

\* reads and updates of one item and one of its properties: both services
WiredRequests ==
    {o \in Requests : /\ o.name \in {"GetItemByID", "UpdateItem",
                                      "GetItemPropertyByID",
                                      "UpdateItemProperty"}
                      /\ o.id = "1" /\ ~o.inc /\ o.ver \in {0, 2}}

otherVars == <<keyVars, nameVars, diskVars, redisVars, restVars>>

NextWired ==
    \/ Select /\ UNCHANGED <<svcVars, otherVars>>
    \/ PortPing /\ UNCHANGED <<svcVars, otherVars>>
    \/ RedisFlip /\ UNCHANGED <<svcVars, otherVars>>
    \/ DirChange /\ UNCHANGED <<svcVars, otherVars>>
    \/ \E p \in SeqProcs : boot = "ready" /\ Start(p, WiredRequests) /\ UNCHANGED <<wireVars, otherVars>>
    \/ \E p \in SeqProcs : DoCacheGet(p) /\ Via /\ UNCHANGED otherVars
    \/ \E p \in SeqProcs : DoStoreRead(p) /\ UNCHANGED <<wireVars, otherVars>>
    \/ \E p \in SeqProcs : DoCacheSet(p) /\ Via /\ UNCHANGED otherVars
    \/ \E p \in SeqProcs : DoStoreWrite(p) /\ UNCHANGED <<wireVars, otherVars>>
    \/ \E p \in SeqProcs : DoCacheDelete(p) /\ Via /\ UNCHANGED otherVars
    \/ \E p \in SeqProcs : Return(p, FALSE) /\ UNCHANGED <<wireVars, otherVars>>

SpecWired == InitWired /\ [][NextWired]_vars

\* ------------------------------------------------------------------------
\* Properties
\* ------------------------------------------------------------------------
Busy(p) == pc[p] # "idle"
Reading(p) == Busy(p) /\ op[p].name \in ReadOps
Writing(p) == Busy(p) /\ op[p].name \in WriteOps
Made(p, n) == Len(calls[p]) >= n

\* the first port call of a read was a Get that came back as a hit
GotHit(p) ==
    /\ Reading(p) /\ Made(p, 1)
    /\ calls[p][1].fn = "cache.Get"
    /\ calls[p][1].err = ""
    /\ calls[p][1].val.kind = (IF Shape(op[p]) = "list" THEN "array" ELSE "object")

\* the first port call of a read was a Get that came back as a miss
GotMiss(p) ==
    /\ Reading(p) /\ Made(p, 1)
    /\ calls[p][1].fn = "cache.Get"
    /\ ~GotHit(p)

\* the key each read is documented to use
DocKey(o) ==
    CASE o.name = "GetAllItems" -> "items:list"
      [] o.name = "GetItemByID" -> "item:" \o o.id
      [] o.name = "GetItemPropertiesByItemID" ->
            "item_properties:list:" \o o.id
      [] o.name = "GetItemPropertyByID" ->
            "item_property:" \o o.id \o ":" \o o.pid

\* C1: a read whose cache Get returns, without error, a non-empty value that
\* decodes into the entity shape returns exactly that value, makes no other
\* port call and in particular never calls the store.
C1_HitServedFromCache ==
    \A p \in Procs :
        GotHit(p) =>
            /\ calls[p][1].arg = DocKey(op[p])
            /\ pc[p] = "done"
            /\ Len(calls[p]) = 1
            /\ CallsOf(p, StoreFns) = <<>>
            /\ res[p] = [err |-> "", val |-> calls[p][1].val.body]

C1_Witness ==
    \E p \in Procs :
        /\ GotHit(p) /\ pc[p] = "done"
        /\ op[p].name = "GetItemPropertyByID"
        /\ res[p].val = <<ItemProperty("7", "2", 1)>>

\* C2: a read that misses (Get error, empty value or undecodable value)
\* queries the store exactly once; when the store succeeds it makes exactly
\* one Set, on the key it read, with the encoded store result and a ttl of
\* 5 minutes, and returns the store's result.
C2_MissReadsStoreAndPopulates ==
    \A p \in Procs :
        (GotMiss(p) /\ pc[p] = "done") =>
            /\ Made(p, 2)
            /\ calls[p][2].fn = "repo.read"
            /\ Len(CallsOf(p, {"repo.read"})) = 1
            /\ calls[p][2].err = "" =>
                /\ Len(calls[p]) = 3
                /\ calls[p][3].fn = "cache.Set"
                /\ calls[p][3].arg = calls[p][1].arg
                /\ calls[p][3].ttl = 5
                /\ calls[p][3].val =
                     [kind |-> IF Shape(op[p]) = "list" THEN "array"
                               ELSE "object",
                      body |-> StoreRead(op[p], FALSE).val]
                /\ res[p] = [err |-> "", val |-> StoreRead(op[p], FALSE).val]

C2_Witness ==
    \E p \in Procs :
        /\ GotMiss(p) /\ pc[p] = "done"
        /\ calls[p][1].val = Garbage
        /\ op[p].name = "GetAllItems"
        /\ Len(calls[p]) = 3
        /\ Len(res[p].val) = 2
        /\ cache["items:list"].present

\* the keys each write is documented to delete
DocSingleKey(o) ==
    IF o.name \in ItemWriteOps THEN "item:" \o o.id
    ELSE "item_property:" \o o.id \o ":" \o o.pid
DocListKey(o) ==
    IF o.name \in ItemWriteOps THEN "items:list"
    ELSE "item_properties:list:" \o o.id

CreateOps == {"CreateItem", "CreateItemProperty"}

\* C3: every write calls the store first, and when that call fails the write
\* returns the store's error having made no cache call at all.
C3_FailedStoreWriteTouchesNoCache ==
    \A p \in Procs :
        (Writing(p) /\ Made(p, 1)) =>
            /\ calls[p][1].fn = "repo.write"
            /\ calls[p][1].err # "" =>
                /\ pc[p] = "done"
                /\ Len(calls[p]) = 1
                /\ res[p].err = calls[p][1].err

C3_Witness ==
    \E p \in Procs :
        /\ Writing(p) /\ pc[p] = "done"
        /\ op[p].name = "UpdateItemProperty"
        /\ calls[p][1].err = "ErrDB"
        /\ cache["item_property:1:7"].present
        /\ op[p].id = "1"

\* C4: after a successful store write an update or delete makes exactly two
\* cache Deletes, the single-entity key and then the list key, and the
\* second is made whatever the first returned.
C4_UpdateDeleteInvalidateBothKeys ==
    \A p \in Procs :
        (/\ Writing(p) /\ pc[p] = "done"
         /\ op[p].name \notin CreateOps
         /\ calls[p][1].err = "") =>
            /\ Len(calls[p]) = 3
            /\ calls[p][2].fn = "cache.Delete"
            /\ calls[p][2].arg = DocSingleKey(op[p])
            /\ calls[p][3].fn = "cache.Delete"
            /\ calls[p][3].arg = DocListKey(op[p])
            /\ calls[p][2].err = "" => ~cache[DocSingleKey(op[p])].present
            /\ calls[p][3].err = "" => ~cache[DocListKey(op[p])].present

C4_Witness ==
    \E p \in Procs :
        /\ Writing(p) /\ pc[p] = "done"
        /\ op[p].name = "DeleteItemProperty"
        /\ Len(calls[p]) = 3
        /\ calls[p][2].err # ""
        /\ calls[p][3].err = ""
        /\ cache[DocSingleKey(op[p])].present

\* C5: a create that the store accepted makes exactly one cache call, a
\* Delete of the list key of its scope, and no step of a create changes any
\* other cache entry or stores anything in the cache.
C5_CreateDeletesOnlyItsListKey ==
    [][\A p \in Procs :
          (op[p].name \in CreateOps /\ calls'[p] # calls[p]) =>
              /\ \A k \in Keys \ {DocListKey(op[p])} : cache'[k] = cache[k]
              /\ cache'[DocListKey(op[p])] \in {cache[DocListKey(op[p])], NoEntry}
              /\ \A n \in 2..Len(calls'[p]) :
                    /\ calls'[p][n].fn = "cache.Delete"
                    /\ calls'[p][n].arg = DocListKey(op[p])
              /\ Len(calls'[p]) <= 2
              /\ (pc'[p] = "done" /\ calls'[p][1].err = "") =>
                    Len(calls'[p]) = 2]_vars

C5_Witness ==
    \E p \in Procs :
        /\ pc[p] = "done"
        /\ op[p].name = "CreateItemProperty"
        /\ op[p].id = "1"
        /\ Len(calls[p]) = 2
        /\ calls[p][2].err = ""
        /\ cache["item_properties:list:2"].present

\* C8: a read that missed and whose store query failed returns the store's
\* error itself with a nil result and makes no further port call (no Set,
\* no Delete).
C8_StoreReadErrorPropagates ==
    \A p \in Procs :
        (/\ Reading(p) /\ Made(p, 2)
         /\ calls[p][2].fn = "repo.read"
         /\ calls[p][2].err # "") =>
            /\ pc[p] = "done"
            /\ Len(calls[p]) = 2
            /\ res[p] = [err |-> calls[p][2].err, val |-> <<>>]

C8_Witness ==
    \E p \in Procs :
        /\ Reading(p) /\ pc[p] = "done"
        /\ op[p].name = "GetItemPropertiesByItemID"
        /\ Len(calls[p]) = 2
        /\ calls[p][2].err = "ErrDB"
        /\ res[p].err = "ErrDB"

\* C9: a finished operation that called the store succeeded exactly when
\* its store call succeeded, whatever the cache calls around it returned.
C9_CacheFailuresNeverChangeOutcome ==
    \A p \in Procs :
        (pc[p] = "done" /\ CallsOf(p, StoreFns) # <<>>) =>
            /\ Len(CallsOf(p, StoreFns)) = 1
            /\ (res[p].err = "") <=> (CallsOf(p, StoreFns)[1].err = "")

\* a failed population Set: the read still returns the store's rows
C9_Witness ==
    \E p \in Procs :
        /\ pc[p] = "done"
        /\ op[p].name = "GetItemByID"
        /\ Len(calls[p]) = 3
        /\ calls[p][3].fn = "cache.Set"
        /\ calls[p][3].err # ""
        /\ res[p].err = ""
        /\ Len(res[p].val) = 1

\* C10: no step of a create, update or delete of a property under item X
\* changes the property-list entry or any single-property entry of another
\* item Y.
C10_PropertyWriteLeavesOtherItemsKeys ==
    [][\A p \in Procs :
          (op[p].name \in PropWriteOps /\ calls'[p] # calls[p]) =>
              \A y \in ItemIds \ {op[p].id} :
                  /\ cache'["item_properties:list:" \o y]
                        = cache["item_properties:list:" \o y]
                  /\ \A q \in PropIds :
                        cache'["item_property:" \o y \o ":" \o q]
                           = cache["item_property:" \o y \o ":" \o q]]_vars

\* a property of item 1 deleted, item 1's list entry gone, item 2's kept
C10_Witness ==
    \E p \in Procs :
        /\ pc[p] = "done"
        /\ op[p].name = "DeleteItemProperty"
        /\ op[p].id = "1"
        /\ Len(calls[p]) = 3
        /\ calls[p][3].err = ""
        /\ cache["item_properties:list:2"].present
        /\ ~cache["item_properties:list:1"].present

\* the content of the entity a get-by-id returned
Returned(p) ==
    IF op[p].name = "GetItemByID" THEN res[p].val[1].Title
    ELSE res[p].val[1].Value

AfterUpdate(p) ==
    /\ pc[p] = "done"
    /\ op[p].name \in {"GetItemByID", "GetItemPropertyByID"}
    /\ lastUpdate.key = DocKey(op[p])
    /\ res[p].err = ""

C11_DeleteItemLeavesPropertyKeys ==
    [][\A p \in Procs :
          (op[p].name = "DeleteItem" /\ calls'[p] # calls[p]) =>
              /\ cache'["item_properties:list:" \o op[p].id]
                    = cache["item_properties:list:" \o op[p].id]
              /\ \A q \in PropIds :
                    cache'["item_property:" \o op[p].id \o ":" \o q]
                       = cache["item_property:" \o op[p].id \o ":" \o q]]_vars

\* item 1 and, by the cascade, its property 7 are gone from the store, and
\* GetItemPropertyByID("1", "7") is a cache hit that returns the property
C11_Witness ==
    \E p \in Procs :
        /\ pc[p] = "done"
        /\ op[p].name = "GetItemPropertyByID"
        /\ op[p].id = "1" /\ op[p].pid = "7"
        /\ GotHit(p)
        /\ res[p].err = ""
        /\ res[p].val = <<ItemProperty("7", "1", 1)>>
        /\ items["1"] = 0
        /\ props["7"] = NoRow
        /\ nfaults = 0

\* C12 as claimed: whatever id strings the services are given, two
\* different (purpose, item-id, property-id) combinations get different
\* key strings.
C12_Original ==
    (kres # <<>> /\ kreq[1] # kreq[2]) => kres[1] # kres[2]

\* C12 as amended: two different combinations get different key strings,
\* whatever the ids, unless both are single-property combinations and one
\* of their ids contains ":".
C12_KeysDifferWithoutColonInIds ==
    (kres # <<>> /\ kreq[1] # kreq[2]) =>
        \/ kres[1] # kres[2]
        \/ /\ kreq[1].purpose = "item_property"
           /\ kreq[2].purpose = "item_property"
           /\ \E n \in {1, 2} :
                 HasColon(kreq[n].itemID) \/ HasColon(kreq[n].propID)

\* two single-property combinations over the same two ids, swapped
C12_Witness ==
    /\ kreq[1] = [purpose |-> "item_property", itemID |-> "a", propID |-> "b"]
    /\ kreq[2] = [purpose |-> "item_property", itemID |-> "b", propID |-> "a"]
    /\ kres = <<"item_property:a:b", "item_property:b:a">>

ReadsNow(g) ==
    /\ dpc[g] = "in" /\ dpc'[g] = "out"
    /\ dop[g].name \in ReadLocked
    /\ dnfaults' = dnfaults

\* the entry the last Set of the key wrote has not expired at time t
Live(w, t) == ~w.expires \/ t <= w.exp

\* C13: when the last write of k that went through is Set(k, v, ttl), a
\* Get(k) returns v if ttl is 0 or the expiry instant has not passed; once
\* it has passed Get(k) fails and Exists(k) is false.
C13_TTLRoundTrip ==
    [][\A g \in Callers :
          (ReadsNow(g) /\ lastWrite[dop[g].key].kind = "set") =>
              LET w == lastWrite[dop[g].key] IN
              IF dop[g].name = "Get"
              THEN IF Live(w, now)
                   THEN dres'[g].err = "" /\ dres'[g].val = w.value
                   ELSE dres'[g].err # "" /\ dres'[g].val = ""
              ELSE ~Live(w, now) => ~dres'[g].ok]_vars

\* C14: when Set(k, v2, t2) has replaced what an earlier Set(k, v1, t1)
\* wrote, a Get(k) returns v2 for as long as t2 alone allows (for ever with
\* t2 = 0) and fails once t2's expiry instant has passed.
C14_SetReplacesValueAndExpiry ==
    [][\A g \in Callers :
          (ReadsNow(g) /\ dop[g].name = "Get"
              /\ lastWrite[dop[g].key].kind = "set"
              /\ lastWrite[dop[g].key].over) =>
              LET w == lastWrite[dop[g].key] IN
              /\ Live(w, now) => (dres'[g].err = "" /\ dres'[g].val = w.value)
              /\ ~Live(w, now) => dres'[g].err = "ErrCacheExpired"]_vars

\* C15: a Delete the file system does not fail returns success, leaves
\* the key's file absent and every other file untouched, also when the
\* file was absent already; while a Delete is the last write of k, Get(k)
\* fails with the key-not-found error and Exists(k) is false.
C15_DeleteIsIdempotent ==
    [][\A g \in Callers :
          /\ (dpc[g] = "in" /\ dpc'[g] = "out" /\ dop[g].name = "Delete"
                /\ dnfaults' = dnfaults) =>
                /\ dres'[g].err = ""
                /\ files' = [files EXCEPT ![FileOf[dop[g].key]] = NoFile]
                /\ files[FileOf[dop[g].key]] = NoFile => files' = files
          /\ (ReadsNow(g) /\ lastWrite[dop[g].key].kind = "delete") =>
                IF dop[g].name = "Get"
                THEN dres'[g].err = "ErrCacheKeyNotFound" /\ dres'[g].val = ""
                ELSE dres'[g].err = "" /\ ~dres'[g].ok]_vars

\* a Get of a key whose last write is a Delete fails with key-not-found
C15_Witness ==
    \E g \in Callers :
        /\ dpc[g] = "out"
        /\ dop[g].name = "Get"
        /\ dres[g].err = "ErrCacheKeyNotFound"
        /\ lastWrite[dop[g].key].kind = "delete"
        /\ dnfaults = 0

\* C16: in every state and for every key, Exists reports true exactly when
\* a Get at that instant would return a value without error; an expired
\* entry whose file is still in the directory reports false.
C16_ExistsAgreesWithGet ==
    \A k \in DiskKeys :
        /\ \A fault \in {"", "io"} :
              FileExists(files, now, k, fault).ok
                 <=> (FileGet(files, now, k, fault).err = "")
        /\ (files[FileOf[k]].kind = "json"
              /\ Expired(UnmarshalItem(files[FileOf[k]]), now)) =>
              ~FileExists(files, now, k, "").ok

\* Exists has answered false for an expired entry that is still on disk
C16_Witness ==
    \E g \in Callers :
        /\ dpc[g] = "out"
        /\ dop[g].name = "Exists"
        /\ dres[g].err = "" /\ ~dres[g].ok
        /\ files[FileOf[dop[g].key]].kind = "json"
        /\ Expired(UnmarshalItem(files[FileOf[dop[g].key]]), now)

\* C17: a Get that finds a file that does not decode as a stored record
\* fails with the error of an absent key.
C17_UndecodableRecordReadsAsNotFound ==
    \A g \in Callers :
        (dpc[g] = "out" /\ dop[g].name = "Get" /\ dres[g].err # "EIO"
            /\ files[FileOf[dop[g].key]].kind = "truncated") =>
            dres[g].err = "ErrCacheKeyNotFound"

\* different keys of the namespace have different files
NamespaceInjective ==
    \A k1 \in NamespaceKeys, k2 \in NamespaceKeys :
        k1 # k2 => NamespaceFiles[k1] # NamespaceFiles[k2]

\* C19: two different keys of the services' namespace never share a file,
\* and no Set or Delete of one key changes what a Get of another key
\* returns.
C19_KeysHaveFilesOfTheirOwn ==
    [][/\ NamespaceInjective
       /\ \A g \in Callers :
             (dpc[g] = "in" /\ dpc'[g] = "out" /\ dop[g].name \in WriteLocked) =>
                 \A k2 \in DiskKeys \ {dop[g].key} :
                     FileGet(files', now, k2, "") = FileGet(files, now, k2, "")]_vars

\* a Set of one key has gone through while the other key holds another
\* value, which a Get would still return
C19_Witness ==
    \E g \in Callers : \E k2 \in DiskKeys :
        /\ dpc[g] = "out"
        /\ dop[g].name = "Set"
        /\ dres[g].err = ""
        /\ k2 # dop[g].key
        /\ FileGet(files, now, k2, "").err = ""
        /\ FileGet(files, now, k2, "").val # dop[g].value
        /\ FileGet(files, now, dop[g].key, "").val = dop[g].value

\* the callers between their lock and unlock, and the removal goroutine
\* between its own
InsideCallers == {g \in Callers : dpc[g] \in {"in", "out"}}
WritersInside == {g \in InsideCallers : dop[g].name \in WriteLocked}
CleanupInside == cleaning # ""

\* C20: while a Set, a Delete or the removal of an expired file is inside
\* its critical section, no other operation of the backend is inside its
\* own.
C20_WritersExcludeAll ==
    /\ WritersInside # {} =>
          (Cardinality(InsideCallers) = 1 /\ ~CleanupInside)
    /\ CleanupInside => InsideCallers = {}

\* a Get and an Exists inside their critical sections at the same time
C20_Witness ==
    /\ InsideCallers = Callers
    /\ dop["g1"].name = "Get"
    /\ dop["g2"].name = "Exists"
    /\ dpc["g1"] = "out" /\ dpc["g2"] = "out"

\* the answer of the disk backend's Get (a value and no error) or Exists
FoundOnDisk(g) ==
    IF dop[g].name = "Get" THEN dres[g].err = "" ELSE dres[g].ok

\* C21: given the same Set, Get, Delete and Exists calls, with no failure
\* of the file system, the disk backend answers every Get and Exists the
\* way Redis does: present or absent alike, and the same value when present.
C21_BackendsAnswerAlike ==
    \A g \in SeqCallers :
        (dpc[g] = "out" /\ dop[g].name \in ReadLocked /\ dnfaults = 0)
            => /\ FoundOnDisk(g) = rres[g].ok
               /\ dres[g].val = rres[g].val

\* the startup ping of Redis failed or ran into its deadline
ProbeFailed == probe \in {"refused", "timeout"}

\* a Ping of the disk backend reports the state of the directory
PingTellsDirectory == ping.done => (ping.err <=> ping.dir # "present")

\* C22 as stated: after a failed or timed-out probe NewCacheRepository has
\* returned the disk backend, whose Ping tells whether the directory is
\* reachable and never contacts Redis; after a good probe it has returned
\* the Redis backend.
C22_Original ==
    boot # "new" =>
        /\ ProbeFailed => (port = "file" /\ PingTellsDirectory /\ ~contacted)
        /\ probe = "ok" => port = "redis"

\* C22: after a failed or timed-out probe, whenever NewCacheRepository has
\* returned a port at all it is the disk backend, whose Ping tells whether
\* the directory is reachable and never contacts Redis; after a good probe
\* it has returned the Redis backend.
C22_FallbackPortIsDisk ==
    /\ (ProbeFailed /\ boot = "ready") =>
            (port = "file" /\ PingTellsDirectory /\ ~contacted)
    /\ (ProbeFailed /\ boot = "failed") => port = ""
    /\ probe = "ok" => (boot = "ready" /\ port = "redis")

\* the probe timed out against a server that is up; later the directory is
\* gone and Ping says so, with Redis never asked
C22_Witness ==
    /\ probe = "timeout" /\ port = "file"
    /\ ping.done /\ ping.err /\ ping.up
    /\ ~contacted

\* C23: the step NewCacheRepository takes ends in an error exactly when the
\* probe failed and the cache directory could not be made; a failed probe
\* with a directory that exists or can be made gives the disk backend, with
\* the directory in place, created if it was missing.
C23_ErrorOnlyWhenFallbackCannotBeBuilt ==
    [][(boot = "new" /\ boot' # "new") =>
        /\ boot' = "failed" <=>
                (probe' \in {"refused", "timeout"} /\ dirState = "blocked")
        /\ (probe' \in {"refused", "timeout"} /\ dirState # "blocked") =>
                (boot' = "ready" /\ port' = "file" /\ dirState' = "present")
      ]_vars

\* an error: Redis refused and the directory could not be made
C23_Witness ==
    boot = "failed" /\ probe = "refused" /\ bootDir = "blocked" /\ port = ""

CachePortFns == {"cache.Get", "cache.Set", "cache.Delete"}

\* the step makes p's next port call
Calls(p) == Len(calls'[p]) = Len(calls[p]) + 1
NewCall(p) == calls'[p][Len(calls'[p])]

\* C24: once NewCacheRepository has returned a port the process keeps it;
\* every cache call of the item service and of the property service goes
\* to that backend; a cache call made while the chosen Redis is down fails
\* and changes no cache content, a Get that fails so is followed by the
\* store query, and a write whose store call succeeded returns success.
C24_OneBackendForLife ==
    /\ [](routed \subseteq {port})
    /\ [](\A p \in Procs :
            (/\ pc[p] = "done" /\ op[p].name \in WriteOps
             /\ CallsOf(p, {"repo.write"}) # <<>>
             /\ CallsOf(p, {"repo.write"})[1].err = "") => res[p].err = "")
    /\ [][/\ boot = "ready" => (boot' = "ready" /\ port' = port)
          /\ \A p \in Procs :
                (/\ Calls(p) /\ NewCall(p).fn \in CachePortFns
                 /\ port = "redis" /\ ~redisUp) =>
                    /\ NewCall(p).err # ""
                    /\ cache' = cache
                    /\ NewCall(p).fn = "cache.Get" => pc'[p] = "storeRead"
         ]_vars

\* Redis was chosen and is down: a read of the property service whose Get
\* and Set both failed has returned the store's row, every call having
\* gone to Redis
C24_Witness ==
    \E p \in Procs :
        /\ port = "redis" /\ ~redisUp /\ routed = {"redis"} /\ nfaults = 0
        /\ pc[p] = "done" /\ op[p].name = "GetItemPropertyByID"
        /\ Len(calls[p]) = 3
        /\ calls[p][1].err # "" /\ calls[p][3].err # ""
        /\ res[p].err = ""

\* every request has returned
AtRest == \A p \in Procs : pc[p] = "idle"

\* the cache holds, under the item's key, something else than the store's row
StaleItem(i) ==
    /\ cache[ItemKey(i)].present
    /\ cache[ItemKey(i)].val # MarshalOne(LoadItem(i, FALSE))

\* C25: a read can populate the cache with the row it read before a
\* writer's store write, while that writer stands between its store write
\* and its last cache Delete, and leave the old row cached once every
\* request has returned (C25_Witness); with no port failure this overlap
\* is the only way an item entry at rest differs from the store.
C25_StaleAtRestOnlyByLateSet ==
    \A i \in ItemIds :
        (AtRest /\ nfaults = 0 /\ StaleItem(i)) => "late" \in race

\* all requests have returned, none failed, the store holds version 2 of
\* item 1 and the cache version 1, written during the writer's invalidation
C25_Witness ==
    /\ AtRest /\ nfaults = 0
    /\ items["1"] = 2
    /\ cache[ItemKey("1")] =
          [present |-> TRUE, val |-> MarshalOne(Item("1", 1, <<>>)), ttl |-> 5]
    /\ "during" \in race

\* the entry cached under the key of read o is not what the store would
\* return to o now
StaleFor(o) ==
    /\ cache[ReadKey(o)].present
    /\ \/ StoreRead(o, FALSE).err # ""
       \/ cache[ReadKey(o)].val # Marshal(Shape(o), StoreRead(o, FALSE).val)

ReadRequests == {o \in LiveRequests : o.name \in ReadOps}

\* C26: every entry in the cache carries the ttl of 5 minutes, never none;
\* an entry that differs from the store is eventually absent, by expiry or
\* by an invalidation; and a read that finds no usable entry queries the
\* store.
C26_StaleEntriesGoAway ==
    /\ [](\A k \in Keys : cache[k].present => cache[k].ttl = 5)
    /\ [](\A p \in Procs :
            (GotMiss(p) /\ pc[p] = "done") => calls[p][2].fn = "repo.read")
    /\ \A o \in ReadRequests :
            StaleFor(o) ~> ~cache[ReadKey(o)].present

\* an update of item 1 whose invalidation failed has returned, leaving
\* version 1 cached against version 2 in the store
C26_Witness ==
    /\ AtRest /\ nfaults = 1
    /\ items["1"] = 2
    /\ cache[ItemKey("1")].present
    /\ cache[ItemKey("1")].val = MarshalOne(Item("1", 1, <<>>))

\* ------------------------------------------------------------------------
\* The HTTP layer: gin router, AuthMiddleware, ItemHandler and
\* ItemPropertyHandler. A request is [method, shape, id, pid, auth, inc,
\* body]: shape is the form of the path under /api/v1 ("items" = /items,
\* "item" = /items/:id, "props" = /items/:id/item_properties, "prop" =
\* /items/:id/item_properties/:property_id), auth the Authorization header,
\* inc the include=item_properties query option, body what the payload
\* decodes to.

Methods == {"GET", "POST", "PUT", "PATCH", "DELETE"}
Shapes == {"items", "item", "props", "prop"}

U1 == "550e8400-e29b-41d4-a716-446655440000"
U2 == "123e4567-e89b-12d3-a456-426614174000"
UBody == "0f8fad5b-d9cb-469f-a165-70867728950e"
BadHex == "550e8400-e29b-41d4-a716-44665544000g"
Wrapped == "x" \o U1 \o "y"
Braced == "{" \o U1 \o "}"
Urn == "urn:uuid:" \o U1
Raw32 == "550e8400e29b41d4a716446655440000"

\* ids a client can put in the path
ItemPathIds == {U1, "invalid-uuid", BadHex, Wrapped, Braced, Urn, Raw32}
PropPathIds == {U2, "invalid-uuid", Wrapped}

\* what uuid.New() can return: random, so none of the ids of the request
FreshIds == {"7c9e6679-7425-40de-944b-e07fc1f90ae7",
             "3f2504e0-4f89-41d3-9a0c-0305e82c3301"}

StaticToken == "secret-token"
AuthHeaders == {"", "Bearer " \o StaticToken, "Bearer wrong-token",
                StaticToken, "bearer " \o StaticToken}

\* the decoded payload: ok = jsonapi.UnmarshalPayload succeeded, id and
\* itemID the ids the body carried, main the title of an item or the name
\* of a property, other the description of an item or the value of a
\* property: "" when the attribute was not sent
AttrVals == {"", "new", "toolong"}
NoBody == [ok |-> FALSE, id |-> "", itemID |-> "", main |-> "", other |-> ""]
Bodies ==
    {NoBody} \cup
    {[ok |-> TRUE, id |-> i, itemID |-> j, main |-> m, other |-> o] :
        i \in {"", UBody, "invalid-uuid"}, j \in {"", UBody},
        m \in AttrVals, o \in AttrVals \ {"toolong"}}

\* the paths under /api/v1/items a client can ask for
Paths ==
    {[shape |-> "items", id |-> "", pid |-> ""]}
    \cup {[shape |-> h, id |-> i, pid |-> ""] :
            h \in {"item", "props"}, i \in ItemPathIds}
    \cup {[shape |-> "prop", id |-> i, pid |-> q] :
            i \in ItemPathIds, q \in PropPathIds}

\* the include option is sent with the item reads, a body with POST, PUT
\* and PATCH
HttpRequests ==
    UNION {
        {[method |-> m, shape |-> p.shape, id |-> p.id, pid |-> p.pid,
          auth |-> a, inc |-> b, body |-> y] :
            a \in AuthHeaders,
            b \in (IF m = "GET" /\ p.shape \in {"items", "item"}
                   THEN BOOLEAN ELSE {FALSE}),
            y \in (IF m \in {"POST", "PUT", "PATCH"} THEN Bodies
                   ELSE {NoBody})} :
        m \in Methods, p \in Paths}

\* how a service call ends: nil, gorm.ErrRecordNotFound, any other error
SvcOutcomes == {"ok", "notfound", "error"}

\* the store reports a missing row on the two reads by id only (First);
\* Find, Create, Save and Delete of no row return no such error
StoreOutcomes(r) ==
    IF r.method = "GET" /\ r.shape \in {"item", "prop"}
    THEN SvcOutcomes ELSE SvcOutcomes \ {"notfound"}

HexDigits == "0123456789abcdefABCDEF"
xtob(c) == \E k \in 1..Len(HexDigits) : CharAt(HexDigits, k) = c

\* strings.EqualFold(p, "urn:uuid:")
EqualFoldUrn(p) ==
    /\ Len(p) = 9
    /\ \A k \in 1..9 :
          CharAt(p, k) \in {CharAt("urn:uuid:", k), CharAt("URN:UUID:", k)}

\* the tail of uuid.Parse: the first 36 bytes of s have the hyphens in
\* place and hex digits elsewhere; bytes after the 36th are not looked at
ParseBody(s) ==
    /\ Len(s) >= 36
    /\ \A k \in {9, 14, 19, 24} : CharAt(s, k) = "-"
    /\ \A k \in (1..36) \ {9, 14, 19, 24} : xtob(CharAt(s, k))

\* uuid.Parse(s) returns no error: by length 36 the plain form, 45 with
\* the urn prefix, 38 with the first byte dropped (braces are not
\* compared), 32 all hex digits
uuidParse(s) ==
    CASE Len(s) = 36 -> ParseBody(s)
      [] Len(s) = 45 -> EqualFoldUrn(SubSeq(s, 1, 9))
                            /\ ParseBody(SubSeq(s, 10, 45))
      [] Len(s) = 38 -> ParseBody(SubSeq(s, 2, 38))
      [] Len(s) = 32 -> \A k \in 1..32 : xtob(CharAt(s, k))
      [] OTHER -> FALSE

AllIds == ItemPathIds \cup PropPathIds \cup FreshIds \cup {"", UBody}
Parsed == [u \in AllIds |-> uuidParse(u)]

isValidUUID(u) == Parsed[u]

\* validation.Validate on the entity: required attributes, and the uuid4
\* tag (omitempty) on ID and ItemID
\* the validate tags of domain.Item (Title required,min=1,max=255;
\* Description max=1000) and of domain.ItemProperty (Name and Value
\* required)
Required(e) ==
    IF e.kind = "item" THEN e.main = "new"
    ELSE e.main = "new" /\ e.other = "new"

Validate_IdsOnly(e) ==
    /\ e.id = "" \/ Parsed[e.id]
    /\ e.itemID = "" \/ Parsed[e.itemID]
Validate(e) ==
    /\ Required(e)
    /\ e.id = "" \/ Parsed[e.id]
    /\ e.itemID = "" \/ Parsed[e.itemID]

\* AuthMiddleware lets the request through
AuthMiddleware_AnyBearer(header) ==
    Len(header) >= 7 /\ SubSeq(header, 1, 7) = "Bearer "
AuthMiddleware(header) == header = "Bearer " \o StaticToken

\* items.RegisterRoutes: three public routes, three behind the middleware
ItemRoutes ==
    {[method |-> "GET", shape |-> "items", auth |-> FALSE, handler |-> "ItemHandler.GetAll"],
     [method |-> "GET", shape |-> "item", auth |-> FALSE, handler |-> "ItemHandler.GetByID"],
     [method |-> "POST", shape |-> "items", auth |-> FALSE, handler |-> "ItemHandler.Create"],
     [method |-> "PUT", shape |-> "item", auth |-> TRUE, handler |-> "ItemHandler.Update"],
     [method |-> "PATCH", shape |-> "item", auth |-> TRUE, handler |-> "ItemHandler.Patch"],
     [method |-> "DELETE", shape |-> "item", auth |-> TRUE, handler |-> "ItemHandler.Delete"]}

\* item_properties.RegisterRoutes: the group with the middleware is made,
\* and every route is registered on the group without it
PropertyRoutes ==
    {[method |-> "GET", shape |-> "props", auth |-> FALSE, handler |-> "ItemPropertyHandler.GetAll"],
     [method |-> "GET", shape |-> "prop", auth |-> FALSE, handler |-> "ItemPropertyHandler.GetByID"],
     [method |-> "POST", shape |-> "props", auth |-> FALSE, handler |-> "ItemPropertyHandler.Create"],
     [method |-> "PUT", shape |-> "prop", auth |-> FALSE, handler |-> "ItemPropertyHandler.Update"],
     [method |-> "PATCH", shape |-> "prop", auth |-> FALSE, handler |-> "ItemPropertyHandler.Patch"],
     [method |-> "DELETE", shape |-> "prop", auth |-> FALSE, handler |-> "ItemPropertyHandler.Delete"]}

Routes == ItemRoutes \cup PropertyRoutes

\* a call of a service method: for Create and Update id and itemID are
\* those of the entity passed
SvcCall(name, id, itemID, inc) ==
    [name |-> name, id |-> id, itemID |-> itemID, inc |-> inc,
     main |-> "", other |-> ""]
NoSvcCall == SvcCall("", "", "", FALSE)
Reply(status, call) == [status |-> status, call |-> call]
Entity(kind, b, id, itemID) ==
    [kind |-> kind, id |-> id, itemID |-> itemID, main |-> b.main,
     other |-> b.other]
\* a service method called with the entity decoded from the body
Pass(name, e) ==
    [name |-> name, id |-> e.id, itemID |-> e.itemID, inc |-> FALSE,
     main |-> e.main, other |-> e.other]

ItemGetAll(r, out) ==
    Reply(IF out = "ok" THEN 200 ELSE 500,
          SvcCall("GetAllItems", "", "", r.inc))

ItemGetByID(r, out) ==
    IF ~isValidUUID(r.id) THEN Reply(400, NoSvcCall)
    ELSE Reply(IF out = "ok" THEN 200 ELSE 404,
               SvcCall("GetItemByID", r.id, "", r.inc))

ItemCreate_KeepsBodyID(r, fresh, out) ==
    LET id == IF r.body.id # "" THEN r.body.id ELSE fresh
        e == Entity("item", r.body, id, "")
    IN  IF ~r.body.ok \/ ~Validate(e) THEN Reply(400, NoSvcCall)
        ELSE Reply(IF out = "ok" THEN 201 ELSE 500, Pass("CreateItem", e))
ItemCreate(r, fresh, out) ==
    IF ~r.body.ok THEN Reply(400, NoSvcCall)
    ELSE IF ~Validate(Entity("item", r.body, fresh, ""))
         THEN Reply(400, NoSvcCall)
    ELSE Reply(IF out = "ok" THEN 201 ELSE 500,
               Pass("CreateItem", Entity("item", r.body, fresh, "")))

ItemUpdate(r, out) ==
    IF ~isValidUUID(r.id) THEN Reply(400, NoSvcCall)
    ELSE IF ~r.body.ok THEN Reply(400, NoSvcCall)
    ELSE IF ~Validate(Entity("item", r.body, r.id, ""))
         THEN Reply(400, NoSvcCall)
    ELSE Reply(IF out = "ok" THEN 200 ELSE 500,
               Pass("UpdateItem", Entity("item", r.body, r.id, "")))

ItemPatch(r, out) == ItemUpdate(r, out)

ItemDelete(r, out) ==
    IF ~isValidUUID(r.id) THEN Reply(400, NoSvcCall)
    ELSE Reply(IF out = "ok" THEN 204 ELSE 500,
               SvcCall("DeleteItem", r.id, "", FALSE))

PropertyGetAll(r, out) ==
    IF ~isValidUUID(r.id) THEN Reply(400, NoSvcCall)
    ELSE Reply(IF out = "ok" THEN 200 ELSE 500,
               SvcCall("GetAllItemProperties", "", r.id, FALSE))

PropertyGetByID(r, out) ==
    IF ~isValidUUID(r.id) THEN Reply(400, NoSvcCall)
    ELSE IF ~isValidUUID(r.pid) THEN Reply(400, NoSvcCall)
    ELSE Reply(IF out = "ok" THEN 200 ELSE 404,
               SvcCall("GetItemPropertyByID", r.pid, r.id, FALSE))

PropertyCreate(r, fresh, out) ==
    IF ~isValidUUID(r.id) THEN Reply(400, NoSvcCall)
    ELSE IF ~r.body.ok THEN Reply(400, NoSvcCall)
    ELSE IF ~Validate(Entity("property", r.body, fresh, r.id))
         THEN Reply(400, NoSvcCall)
    ELSE Reply(IF out = "ok" THEN 201 ELSE 500,
               Pass("CreateItemProperty",
                    Entity("property", r.body, fresh, r.id)))

PropertyUpdate(r, out) ==
    IF ~isValidUUID(r.id) THEN Reply(400, NoSvcCall)
    ELSE IF ~isValidUUID(r.pid) THEN Reply(400, NoSvcCall)
    ELSE IF ~r.body.ok THEN Reply(400, NoSvcCall)
    ELSE IF ~Validate(Entity("property", r.body, r.pid, r.id))
         THEN Reply(400, NoSvcCall)
    ELSE Reply(IF out = "ok" THEN 200 ELSE 500,
               Pass("UpdateItemProperty",
                    Entity("property", r.body, r.pid, r.id)))

PropertyPatch(r, out) == PropertyUpdate(r, out)

PropertyDelete(r, out) ==
    IF ~isValidUUID(r.id) THEN Reply(400, NoSvcCall)
    ELSE IF ~isValidUUID(r.pid) THEN Reply(400, NoSvcCall)
    ELSE Reply(IF out = "ok" THEN 204 ELSE 500,
               SvcCall("DeleteItemProperty", r.pid, r.id, FALSE))

Handle(h, r, fresh, out) ==
    CASE h = "ItemHandler.GetAll" -> ItemGetAll(r, out)
      [] h = "ItemHandler.GetByID" -> ItemGetByID(r, out)
      [] h = "ItemHandler.Create" -> ItemCreate(r, fresh, out)
      [] h = "ItemHandler.Update" -> ItemUpdate(r, out)
      [] h = "ItemHandler.Patch" -> ItemPatch(r, out)
      [] h = "ItemHandler.Delete" -> ItemDelete(r, out)
      [] h = "ItemPropertyHandler.GetAll" -> PropertyGetAll(r, out)
      [] h = "ItemPropertyHandler.GetByID" -> PropertyGetByID(r, out)
      [] h = "ItemPropertyHandler.Create" -> PropertyCreate(r, fresh, out)
      [] h = "ItemPropertyHandler.Update" -> PropertyUpdate(r, out)
      [] h = "ItemPropertyHandler.Patch" -> PropertyPatch(r, out)
      [] h = "ItemPropertyHandler.Delete" -> PropertyDelete(r, out)

\* the row an update addresses, as stored before the request
OldRow == [main |-> "old", other |-> "old"]

\* repository Update: db.Save(entity) writes every column of the entity,
\* zero values included
Save(row, e) == [main |-> e.main, other |-> e.other]

\* the addressed row after the service call
RowAfter(call, out) ==
    IF call.name \in {"UpdateItem", "UpdateItemProperty"} /\ out = "ok"
    THEN Save(OldRow, call) ELSE OldRow

\* the engine serving one request: no route, 404; a route behind the
\* middleware and a header it refuses, 401 and the chain is aborted;
\* otherwise the handler runs
ServeHTTP(r, fresh, out) ==
    LET found == {t \in Routes : t.method = r.method /\ t.shape = r.shape}
    IN  IF found = {}
        THEN [status |-> 404, call |-> NoSvcCall, handler |-> "",
              outcome |-> "", row |-> OldRow]
        ELSE LET t == CHOOSE x \in found : TRUE
             IN  IF t.auth /\ ~AuthMiddleware(r.auth)
                 THEN [status |-> 401, call |-> NoSvcCall, handler |-> "",
                       outcome |-> "", row |-> OldRow]
                 ELSE LET w == Handle(t.handler, r, fresh, out)
                      IN  [status |-> w.status, call |-> w.call,
                           handler |-> t.handler,
                           outcome |-> IF w.call = NoSvcCall THEN ""
                                       ELSE out,
                           row |-> RowAfter(w.call, out)]

httpOff == <<svcVars, keyVars, nameVars, diskVars, redisVars, wireVars, race>>

InitHttp ==
    /\ NoServiceRun /\ NoKeyRun /\ NoDiskRun /\ NoMoreRun

\* a client sends a request
Receive ==
    /\ hreq = NoRequest
    /\ \E r \in HttpRequests : hreq' = r
    /\ UNCHANGED hres

\* the server answers it
Serve ==
    /\ hreq # NoRequest /\ hres = NoResponse
    /\ \E fresh \in FreshIds, out \in StoreOutcomes(hreq) :
          hres' = ServeHTTP(hreq, fresh, out)
    /\ UNCHANGED hreq

\* the response is written and the connection takes the next request
Close ==
    /\ hres # NoResponse
    /\ hreq' = NoRequest /\ hres' = NoResponse

NextHttp ==
    \/ Receive /\ UNCHANGED httpOff
    \/ Serve /\ UNCHANGED httpOff
    \/ Close /\ UNCHANGED httpOff

SpecHttp == InitHttp /\ [][NextHttp]_vars

Served == hreq # NoRequest /\ hres # NoResponse

\* ------------------------------------------------------------------------
\* Properties of the HTTP layer

Mutating(r) == r.method \in {"POST", "PUT", "PATCH", "DELETE"}
UnderProperties(r) ==
    \/ r.shape = "props" /\ r.method = "POST"
    \/ r.shape = "prop" /\ r.method \in {"PUT", "PATCH", "DELETE"}
Refused == hres.status = 401 /\ hres.handler = "" /\ hres.call = NoSvcCall
Admitted == hres.status # 401 /\ hres.handler # ""

\* C27: a POST, PUT, PATCH or DELETE under /api/v1/items/:id/item_properties
\* without the header "Authorization: Bearer secret-token" is answered 401
\* and neither the property handler nor a service is invoked; the two GET
\* endpoints are served whatever the header.
C27_PropertyMutationsNeedToken ==
    Served =>
        /\ UnderProperties(hreq) /\ hreq.auth # "Bearer secret-token"
              => Refused
        /\ hreq.method = "GET" /\ hreq.shape \in {"props", "prop"}
              => Admitted

\* C28: PUT, PATCH and DELETE on /api/v1/items/:id are answered 401 without
\* reaching the item handler unless the Authorization header is exactly
\* "Bearer secret-token", and reach it when it is; GET /items,
\* GET /items/:id and POST /items reach their handler whatever the header.
C28_ItemMutationsNeedToken ==
    Served =>
        /\ hreq.shape = "item" /\ hreq.method \in {"PUT", "PATCH", "DELETE"}
              => IF hreq.auth = "Bearer secret-token"
                 THEN Admitted ELSE Refused
        /\ \/ hreq.shape = "items" /\ hreq.method \in {"GET", "POST"}
           \/ hreq.shape = "item" /\ hreq.method = "GET"
              => Admitted

C28_Witness ==
    /\ Served
    /\ hreq.shape = "item" /\ hreq.method = "PATCH"
    /\ hreq.auth = "Bearer wrong-token"
    /\ hres.status = 401

\* a UUID written out: the 36-character form, that form after "urn:uuid:",
\* that form in braces, or the 32 hex digits alone
PlainUUID(s) ==
    /\ Len(s) = 36
    /\ \A k \in 1..36 :
          IF k \in {9, 14, 19, 24} THEN CharAt(s, k) = "-"
          ELSE xtob(CharAt(s, k))
WrittenUUID(s) ==
    \/ PlainUUID(s)
    \/ Len(s) = 45 /\ EqualFoldUrn(SubSeq(s, 1, 9)) /\ PlainUUID(SubSeq(s, 10, 45))
    \/ Len(s) = 38 /\ CharAt(s, 1) = "{" /\ CharAt(s, 38) = "}"
          /\ PlainUUID(SubSeq(s, 2, 37))
    \/ Len(s) = 32 /\ \A k \in 1..32 : xtob(CharAt(s, k))
IsUUID == [u \in AllIds |-> WrittenUUID(u)]

\* C29: when a handler that takes an id from the path runs and the item id
\* or the property id is not a valid UUID, the response is 400 and no
\* service method is called.
C29_BadPathIdIs400 ==
    /\ Served /\ hres.handler # ""
    /\ \/ hreq.shape # "items" /\ ~IsUUID[hreq.id]
       \/ hreq.shape = "prop" /\ ~IsUUID[hreq.pid]
    => hres.status = 400 /\ hres.call = NoSvcCall

\* C30: the entity Create passes to the service has an id that uuid.New
\* made, different from the ids the body carried, and for a property the
\* item id of the path; the entity Update (and Patch) passes has the id,
\* and for a property the item id, of the path, whatever the body holds.
C30_IdentityFromHandler ==
    Served =>
        /\ hres.call.name \in {"CreateItem", "CreateItemProperty"} =>
              /\ hres.call.id \in FreshIds
              /\ hres.call.id \notin {hreq.body.id, hreq.body.itemID}
        /\ hres.call.name = "CreateItemProperty" =>
              hres.call.itemID = hreq.id
        /\ hres.call.name = "UpdateItem" =>
              hres.call.id = hreq.id
        /\ hres.call.name = "UpdateItemProperty" =>
              hres.call.id = hreq.pid /\ hres.call.itemID = hreq.id

C30_Witness ==
    /\ Served
    /\ hres.call.name = "CreateItem"
    /\ hreq.body.id = UBody
    /\ hres.call.id # UBody

WriteHandlers ==
    {"ItemHandler.Create", "ItemHandler.Update", "ItemHandler.Patch",
     "ItemPropertyHandler.Create", "ItemPropertyHandler.Update",
     "ItemPropertyHandler.Patch"}

\* a required attribute of the entity is missing or too long: the title of
\* an item, the name or the value of a property
Incomplete(r) ==
    \/ r.body.main # "new"
    \/ r.shape \in {"props", "prop"} /\ r.body.other = ""

\* C31: when the entity of a create or update request fails validation (a
\* required attribute is missing or out of its length), the handler
\* answers 400 and calls no service method.
C31_ValidationErrorIs400 ==
    /\ Served /\ hres.handler \in WriteHandlers
    /\ hreq.body.ok /\ Incomplete(hreq)
    => hres.status = 400 /\ hres.call = NoSvcCall

C31_Witness ==
    /\ Served /\ hres.handler = "ItemPropertyHandler.Update"
    /\ hreq.id = U1 /\ hreq.pid = U2
    /\ hreq.body.ok /\ hreq.body.main = "new" /\ hreq.body.other = ""
    /\ hres.status = 400

\* C32: for every endpoint of both resources, a service call that ends
\* with the store's not-found error is answered 404 and one that ends with
\* any other store error is answered 500.
C32_StoreErrorsMapped ==
    Served =>
        /\ hres.outcome = "notfound" => hres.status = 404
        /\ hres.outcome = "error" => hres.status = 500

\* C33: a PATCH that succeeds leaves every attribute the request did not
\* send with the value it had in the store.
C33_PatchKeepsUnsentAttributes ==
    /\ Served /\ hreq.method = "PATCH" /\ hres.outcome = "ok"
    => /\ hreq.body.main = "" => hres.row.main = OldRow.main
       /\ hreq.body.other = "" => hres.row.other = OldRow.other

\* the entry the last Set of k wrote is due to be served at this instant
Standing(k) == lastWrite[k].kind = "set" /\ Live(lastWrite[k], now)

\* C34: while the last write of k is a Set whose expiry instant has not
\* passed, the removal goroutine an earlier Get started never removes k's
\* file, and every Get(k) returns the value of that Set.
C34_CleanupSparesNewEntry ==
    [][/\ (mu.w = "cleanup" /\ mu'.w = "") =>
              \A k \in DiskKeys :
                  (FileOf[k] = cleaning /\ Standing(k)) =>
                      files'[cleaning] = files[cleaning]
       /\ \A g \in Callers :
              (ReadsNow(g) /\ dop[g].name = "Get" /\ Standing(dop[g].key)) =>
                  /\ dres'[g].err = ""
                  /\ dres'[g].val = lastWrite[dop[g].key].value]_vars

\* the entry under item:<i> is the serialization of the store's row i
ItemEntryCurrent(i) ==
    /\ items[i] # 0
    /\ cache[ItemKey(i)].val = MarshalOne(LoadItem(i, FALSE))

\* the entry under items:list is the serialization of the store's rows
ListEntryCurrent ==
    cache[itemsListCacheKey].val
        = MarshalList(ItemRepoGetAll(FALSE, FALSE).val)

\* C35: with one request at a time, no failing cache call and no include
\* option, whenever no operation is in progress a present item:<id> entry
\* is the serialization of the store's item and a present items:list entry
\* is the serialization of the store's item list.
C35_ItemCacheCoherentAtRest ==
    (\A p \in Procs : pc[p] = "idle") =>
        /\ \A i \in ItemIds :
              cache[ItemKey(i)].present => ItemEntryCurrent(i)
        /\ cache[itemsListCacheKey].present => ListEntryCurrent

C35_Witness ==
    /\ \A p \in Procs : pc[p] = "idle"
    /\ items["1"] = 2
    /\ cache[ItemKey("1")].present /\ ItemEntryCurrent("1")
    /\ cache[itemsListCacheKey].present /\ ListEntryCurrent

\* process p is about to return items to its handler
ReturnsItems(p) ==
    /\ pc[p] = "done"
    /\ op[p].name \in {"GetItemByID", "GetAllItems"}
    /\ res[p].err = ""

\* C36: the shape GetItemByID and GetAllItems return follows the request's
\* include option alone: without the option no returned item carries
\* embedded properties, and with the option every returned item whose store
\* row has properties carries some.
C36_ShapeFollowsInclude ==
    \A p \in Procs :
        ReturnsItems(p) =>
            \A k \in 1..Len(res[p].val) :
                LET e == res[p].val[k] IN
                IF op[p].inc
                THEN PropsOf(e.ID) # <<>> => e.ItemProperties # <<>>
                ELSE e.ItemProperties = <<>>

\* C37: with no failing call, an include read never returns an embedded
\* property set that differs from the store's current properties of the
\* item, whatever property writes have returned before it.
C37_IncludeReadSeesPropertyWrites ==
    \A p \in Procs :
        (ReturnsItems(p) /\ op[p].inc /\ nfaults = 0) =>
            \A k \in 1..Len(res[p].val) :
                LET e == res[p].val[k] IN
                e.ItemProperties # <<>> =>
                    e.ItemProperties = PropsOf(e.ID)

\* p runs UpdateItemProperty on a property that belongs to another item
UpdatesForeignProperty(p) ==
    /\ op[p].name = "UpdateItemProperty"
    /\ props[op[p].pid] # NoRow
    /\ props[op[p].pid].item # op[p].id

\* the property entries cached under item a agree with the store
OwnerEntriesCurrent(a, q) ==
    /\ cache[PropKey(a, q)].present =>
          /\ props[q].item = a
          /\ cache[PropKey(a, q)].val
                = MarshalOne(ItemProperty(q, a, props[q].ver))
    /\ cache[PropListKey(a)].present =>
          cache[PropListKey(a)].val = MarshalList(PropsOf(a))

\* C38: an UpdateItemProperty that names item B and a property of item A
\* leaves that property's row as it is, and when a property update returns
\* success in a run without failing calls, the property entries cached under
\* every other existing item agree with the store.
C38_PropertyUpdateScopedByItem ==
    [][\A p \in Procs :
          /\ (pc[p] = "storeWrite" /\ UpdatesForeignProperty(p)) =>
                props'[op[p].pid] = props[op[p].pid]
          /\ (/\ pc[p] = "done" /\ pc'[p] = "idle"
              /\ op[p].name = "UpdateItemProperty"
              /\ res[p].err = "" /\ nfaults = 0) =>
                \A a \in ItemIds \ {op[p].id} :
                    items[a] # 0 => OwnerEntriesCurrent(a, op[p].pid)]_vars

\* C39: on one disk backend, under fair scheduling, every call that has
\* started returns (it takes the lock, runs and releases it), and every
\* removal a Get has requested takes the lock, removes the file and releases
\* the lock, also when it was requested under the Get's read lock.
C39_DiskLockNeverDeadlocks ==
    /\ \A g \in Callers : (dpc[g] # "idle") ~> (dpc[g] = "idle")
    /\ \A f \in DiskFiles :
          (cleanups[f] > 0) ~> (cleanups[f] = 0 /\ cleaning # f)

\* a removal is requested while its Get still holds the read lock and the
\* other caller waits for the write lock
C39_Witness ==
    \E g \in Callers, h \in Callers :
        /\ dop[g].name = "Get" /\ dpc[g] = "out" /\ g \in mu.r
        /\ cleanups[FileOf[dop[g].key]] > 0
        /\ dpc[h] = "lock" /\ dop[h].name \in WriteLocked


====
